---- MODULE Spec2Model ----
(***************************************************************************)
(* WriteTank orchestration engine (background service worker and the       *)
(* content script's text extraction).                                      *)
(*                                                                         *)
(* Texts are sequences of one-character strings, so that slicing,          *)
(* searching and trimming are computed position by position as the         *)
(* JavaScript string methods compute them.                                 *)
(***************************************************************************)
EXTENDS Integers, Sequences, FiniteSets, TLC

VARIABLES
  \* --- Output Repair (ensureCompleteSentences / ensureLatexCompleteness)
  rText,      \* the raw model output handed to the repair
  rOnce,      \* the repair of rText
  rTwice,     \* the repair of rOnce
  rLatex,     \* ensureLatexCompleteness applied to rText alone
  rPc,        \* "raw" | "once" | "twice"
  \* --- Text Source Adapter (grabEditorText in the content script)
  xDom,       \* the page: selection probes, editor surface, lines, viewport
  xArgs,      \* [preferSelection, mode] of the call
  xRaw,       \* the text gathered before clean-up and truncation
  xOut,       \* [selection, text, wasTruncated] returned
  xPc,        \* "call" | "done"
  \* --- Model Client (ollamaChat / ollamaChatStream), one call
  sKind,      \* "chat" | "stream"
  sPc,        \* "idle" | "fetching" | "reading" | "resolved" | "failed"
  sStatus,    \* the HTTP status of the response (0: none yet)
  sHasBody,   \* whether the response has a body
  sLines,     \* the lines the endpoint sends on a streaming response
  sWire,      \* the characters of the response not yet read
  sBuffer,    \* buffer: the partial line kept between chunks
  sFull,      \* full: the accumulated text
  sDeltas,    \* the arguments of the onDelta calls so far, in order
  sResult,    \* the string the call resolved with
  sError,     \* why the call failed
  sRequests,  \* the number of HTTP requests issued
  \* --- Summary Cache (maybeUpdateSummary) and its surroundings
  persisted,  \* chrome.storage.local: document id -> summary table
  sum,        \* the maybeUpdateSummary calls in progress, by slot
  now,        \* Date.now()
  doc,        \* the version of the text in the editor
  activeUrl,  \* the URL of the active Overleaf tab ("none": there is none)
  switches,   \* how many times the active tab has changed
  \* --- Configuration, Scheduler and the alarm listener
  stored,     \* chrome.storage.local: the settings keys that are stored
  alarms,     \* chrome.alarms: the alarms that exist
  cfg,        \* the settings and lifecycle handlers in progress, by slot
  ticks,      \* the alarm listener's invocations, by slot
  stale,      \* the invocations that began before the last handler ended
  \* --- The message listener (qa, coach, coach:expand, run-now)
  reqs,       \* the message listener's invocations, by slot
  pick,       \* one call of pickBestSummary: its arguments and what it returned
  \* --- The panel of the content script (onAsk, runCoachNow)
  panel       \* what the panel shows and which responses it waits for

repairVars == <<rText, rOnce, rTwice, rLatex, rPc>>
extractVars == <<xDom, xArgs, xRaw, xOut, xPc>>
clientVars == <<sKind, sPc, sStatus, sHasBody, sLines, sWire, sBuffer, sFull,
                sDeltas, sResult, sError, sRequests>>
cacheVars == <<persisted, sum, now, doc, activeUrl, switches>>
schedVars == <<stored, alarms, cfg, ticks, stale>>
reqVars == <<reqs, pick, panel>>

vars == <<rText, rOnce, rTwice, rLatex, rPc, xDom, xArgs, xRaw, xOut, xPc,
          sKind, sPc, sStatus, sHasBody, sLines, sWire, sBuffer, sFull,
          sDeltas, sResult, sError, sRequests,
          persisted, sum, now, doc, activeUrl, switches,
          stored, alarms, cfg, ticks, stale, reqs, pick, panel>>

(***************************************************************************)
(* String helpers (JavaScript String semantics on character sequences).    *)
(***************************************************************************)
Max(a, b) == IF a >= b THEN a ELSE b
Min(a, b) == IF a <= b THEN a ELSE b

\* String.prototype.slice(0, n) for 0 <= n
Prefix(s, n) == SubSeq(s, 1, Min(n, Len(s)))

\* the white space String.prototype.trim removes
WhiteSpace == {" ", "\n", "\r", "\t"}

\* the number of white-space characters at the start of s, from position i
RECURSIVE LeadingWhiteSpace(_, _)
LeadingWhiteSpace(s, i) ==
  IF i <= Len(s) /\ s[i] \in WhiteSpace THEN 1 + LeadingWhiteSpace(s, i + 1) ELSE 0

\* the number of white-space characters at the end of s, back from position i
RECURSIVE TrailingWhiteSpace(_, _)
TrailingWhiteSpace(s, i) ==
  IF i >= 1 /\ s[i] \in WhiteSpace THEN 1 + TrailingWhiteSpace(s, i - 1) ELSE 0

\* String.prototype.trim
Trim(s) ==
  LET lead == LeadingWhiteSpace(s, 1)
  IN  IF lead = Len(s) THEN <<>>
      ELSE SubSeq(s, lead + 1, Len(s) - TrailingWhiteSpace(s, Len(s)))

\* s.startsWith(pat, i - 1): pat occurs in s at position i (1-based)
OccursAt(pat, s, i) ==
  /\ i + Len(pat) - 1 <= Len(s)
  /\ \A k \in 1..Len(pat) : s[i + k - 1] = pat[k]

\* (s.match(new RegExp(pat, 'g')) || []).length for a literal pattern that
\* cannot overlap itself
CountMatches(pat, s) == Cardinality({i \in 1..Len(s) : OccursAt(pat, s, i)})

\* String.prototype.repeat
RECURSIVE Repeat(_, _)
Repeat(s, n) == IF n <= 0 THEN <<>> ELSE s \o Repeat(s, n - 1)

(***************************************************************************)
(* Output Repair                                                           *)
(***************************************************************************)
Terminals == {".", "!", "?"}

\* the closing quotes and brackets of ensureCompleteSentences; the two
\* typographic quotes are written by name
Closers == {")", "]", "}", "RDQUO", "RSQUO", "\"", "'"}

MutLastTerminal(text) ==
  LET at == {i \in 1..Len(text) : text[i] \in Terminals}
  IN  IF at = {} THEN 0 ELSE CHOOSE i \in at : \A j \in at : i <= j

\* max over the terminals of text.lastIndexOf(t), 1-based; 0 when none
LastTerminal(text) ==
  LET at == {i \in 1..Len(text) : text[i] \in Terminals}
  IN  IF at = {} THEN 0 ELSE CHOOSE i \in at : \A j \in at : i >= j

\* the while loop that extends `end` over the closers that follow
RECURSIVE SkipClosers(_, _)
SkipClosers(text, end) ==
  IF end < Len(text) /\ text[end + 1] \in Closers
    THEN SkipClosers(text, end + 1)
    ELSE end

ensureCompleteSentences(text) ==
  IF text = <<>> THEN text
  ELSE LET last == LastTerminal(text)
       IN  IF last = 0 THEN text
           ELSE Trim(SubSeq(text, 1, SkipClosers(text, last)))

Environments ==
  << <<"i","t","e","m","i","z","e">>,
     <<"e","n","u","m","e","r","a","t","e">>,
     <<"d","e","s","c","r","i","p","t","i","o","n">>,
     <<"e","q","u","a","t","i","o","n">>,
     <<"a","l","i","g","n">>,
     <<"f","i","g","u","r","e">>,
     <<"t","a","b","l","e">> >>

BeginMarker(env) == <<"\\","b","e","g","i","n","{">> \o env \o <<"}">>
EndMarker(env)   == <<"\\","e","n","d","{">> \o env \o <<"}">>

\* one iteration of the loop over the environments
MutCloseEnv(result, env) ==
  IF CountMatches(BeginMarker(env), result) > 0
    THEN result \o <<"\n">> \o EndMarker(env)
    ELSE result

CloseEnv(result, env) ==
  LET openCount  == CountMatches(BeginMarker(env), result)
      closeCount == CountMatches(EndMarker(env), result)
  IN  IF openCount > closeCount
        THEN result \o <<"\n">> \o Repeat(EndMarker(env), openCount - closeCount)
        ELSE result

RECURSIVE CloseEnvsFrom(_, _)
CloseEnvsFrom(result, k) ==
  IF k > Len(Environments) THEN result
  ELSE CloseEnvsFrom(CloseEnv(result, Environments[k]), k + 1)

ensureLatexCompleteness(text) ==
  IF text = <<>> THEN text ELSE CloseEnvsFrom(text, 1)

\* the repair sequence of coach, coach:expand, run-now and the tick
OutputRepair(text) == ensureLatexCompleteness(ensureCompleteSentences(text))

(***************************************************************************)
(* Text Source Adapter: grabEditorText(preferSelection, mode)              *)
(***************************************************************************)
MaxChars == 1500
VisiblePad == 16
FallbackWindow == 20
AceExtra == 8
AceFallbackFromLast == 12
AceFallbackFromFirst == 24

\* a line of the editor: `lead` blanks, `n` letters, and a carriage return
\* at its end when `cr`
LineText(shape) ==
  [i \in 1..shape.lead |-> " "] \o [i \in 1..shape.n |-> "a"]
    \o (IF shape.cr THEN <<"\r">> ELSE <<>>)

BlankShape == [n |-> 0, lead |-> 1, cr |-> FALSE]

\* the innerText of the lines of the page, in document order
DomLines(dom) ==
  [i \in 1..dom.numLines |->
     LineText(IF i \in dom.blankLo..dom.blankHi THEN BlankShape ELSE dom.shape)]

\* Array.prototype.join('\n')
RECURSIVE JoinLines(_)
JoinLines(lines) ==
  IF lines = <<>> THEN <<>>
  ELSE IF Len(lines) = 1 THEN lines[1]
  ELSE lines[1] \o <<"\n">> \o JoinLines(Tail(lines))

\* the selection probes in order (window.getSelection, the CodeMirror
\* accessor, CodeMirror by other selectors, Ace, contenteditable ranges):
\* the first whose trimmed result is not empty, trimmed
RECURSIVE FirstSelection(_, _)
FirstSelection(probes, k) ==
  IF k > Len(probes) THEN <<>>
  ELSE IF Trim(probes[k]) # <<>> THEN Trim(probes[k])
  ELSE FirstSelection(probes, k + 1)

\* the lines the filter on offsetTop/offsetHeight keeps, with positions in
\* line heights: line i spans [i - 1, i], the viewport [top, top + height]
VisibleLines(dom) ==
  {i \in 1..dom.numLines : i >= dom.top /\ i - 1 <= dom.top + dom.height}

SetMin(S) == CHOOSE i \in S : \A j \in S : i <= j
SetMax(S) == CHOOSE i \in S : \A j \in S : i >= j

MutCmVisibleRange(dom) ==
  LET allLines == DomLines(dom)
      visible  == VisibleLines(dom)
      firstIdx == IF visible # {} THEN Max(0, SetMin(visible) - 1 - VisiblePad) ELSE 0
      lastIdx  == IF visible # {}
                    THEN Min(Len(allLines) - 1, SetMax(visible) - 1 + VisiblePad)
                    ELSE -1
      slice    == IF lastIdx >= firstIdx
                    THEN SubSeq(allLines, firstIdx + 1, lastIdx + 1)
                    ELSE <<>>
      text     == JoinLines(IF Len(slice) > 0 THEN slice ELSE allLines)
  IN  IF Trim(text) = <<>> /\ Len(allLines) > 0
        THEN <<firstIdx + 1, Min(Len(allLines), firstIdx + FallbackWindow)>>
      ELSE IF Len(slice) > 0 THEN <<firstIdx + 1, lastIdx + 1>>
      ELSE <<1, Len(allLines)>>

\* the CodeMirror surface, mode 'visible', with a scroller and a content
\* node: the lines whose text is returned, as <<first, last>> counted from 1:
\* the padded slice, all lines when the slice is empty, or the fallback
\* window when the text of those is blank
CmVisibleRange(dom) ==
  LET allLines == DomLines(dom)
      visible  == VisibleLines(dom)
      firstIdx == IF visible # {} THEN SetMin(visible) - 1 ELSE 0
      lastIdx  == IF visible # {}
                    THEN Min(Len(allLines) - 1, SetMax(visible) - 1 + VisiblePad)
                    ELSE -1
      slice    == IF lastIdx >= firstIdx
                    THEN SubSeq(allLines, firstIdx + 1, lastIdx + 1)
                    ELSE <<>>
      text     == JoinLines(IF Len(slice) > 0 THEN slice ELSE allLines)
  IN  IF Trim(text) = <<>> /\ Len(allLines) > 0
        THEN <<firstIdx + 1, Min(Len(allLines), firstIdx + FallbackWindow)>>
      ELSE IF Len(slice) > 0 THEN <<firstIdx + 1, lastIdx + 1>>
      ELSE <<1, Len(allLines)>>

\* the text of those lines, joined
CmVisibleText(dom) ==
  LET range == CmVisibleRange(dom)
  IN  JoinLines(SubSeq(DomLines(dom), range[1], range[2]))

\* editor.session.getTextRange(new Range(r1, 0, r2, 0)), rows counted from 0
AceTextRange(lines, r1, r2) ==
  IF r1 >= Len(lines) \/ r2 <= r1 THEN <<>>
  ELSE IF r2 >= Len(lines) THEN JoinLines(SubSeq(lines, r1 + 1, Len(lines)))
  ELSE JoinLines(SubSeq(lines, r1 + 1, r2)) \o <<"\n">>

\* the Ace surface
AceText(dom, mode) ==
  LET lines == DomLines(dom)
      first == dom.top
      last  == dom.top + dom.height
      t1    == AceTextRange(lines, first, last + AceExtra)
      t2    == IF Trim(t1) = <<>>
                 THEN AceTextRange(lines, first,
                        Min(last + AceFallbackFromLast, first + AceFallbackFromFirst))
                 ELSE t1
      text  == IF mode = "visible" /\ dom.aceApi THEN t2 ELSE <<>>
  IN  IF text = <<>> THEN JoinLines(lines) ELSE text

\* the text gathered for the scope, before clean-up
GatherText(dom, preferSelection, mode, sel) ==
  IF preferSelection THEN sel
  ELSE IF dom.surface = "cm" THEN
         IF mode = "visible" /\ dom.hasScroller THEN CmVisibleText(dom)
         ELSE JoinLines(DomLines(dom))
  ELSE IF dom.surface = "ace" THEN AceText(dom, mode)
  ELSE JoinLines(DomLines(dom))   \* editor-like elements, else the page body

\* text.replace(/\r\n/g, '\n').replace(/\r/g, '\n')
NormalizeNewlines(s) ==
  LET pairs == [i \in 1..Len(s) |->
                  <<s[i], IF i < Len(s) THEN s[i + 1] ELSE "">>]
      IsCrLf(p) == p[1] = "\r" /\ p[2] = "\n"
      kept  == SelectSeq(pairs, LAMBDA p : ~IsCrLf(p))
  IN  [i \in 1..Len(kept) |-> IF kept[i][1] = "\r" THEN "\n" ELSE kept[i][1]]

CleanUp(text) == Trim(NormalizeNewlines(text))

MutTruncate(text) ==
  [text |-> Prefix(text, MaxChars), wasTruncated |-> Len(text) >= MaxChars]

\* the hard truncation to the character budget
Truncate(text) ==
  LET wasTruncated == Len(text) > MaxChars
  IN  [text |-> IF wasTruncated THEN Prefix(text, MaxChars) ELSE text,
       wasTruncated |-> wasTruncated]

grabEditorText(dom, preferSelection, mode) ==
  LET sel  == FirstSelection(dom.probes, 1)
      raw  == GatherText(dom, preferSelection, mode, sel)
      cut  == Truncate(CleanUp(raw))
  IN  [selection |-> sel, text |-> cut.text, wasTruncated |-> cut.wasTruncated,
       raw |-> raw]

\* the character budget of grabEditorText in content.ts
ContentMaxChars == 4000

\* grabEditorText(preferSelection) of content.ts: the selection is that of
\* window.getSelection alone; without one, or when it is not preferred, the
\* text is that of the lines of the editor (CodeMirror, else Ace) or of the
\* page body
contentGrabEditorText(dom, preferSelection) ==
  LET sel  == Trim(dom.probes[1])
      raw  == IF preferSelection /\ Len(sel) > 0 THEN sel
              ELSE JoinLines(DomLines(dom))
  IN  [selection |-> sel, text |-> Prefix(raw, ContentMaxChars), raw |-> raw]

(***************************************************************************)
(* Model Client: the wire protocol of ollamaChatStream and ollamaChat.     *)
(*                                                                         *)
(* A response line is a sequence of characters in which a JSON value is    *)
(* written "{", payload, "}" (an object) or "null"; any other non-blank    *)
(* line is what JSON.parse rejects.                                        *)
(***************************************************************************)
\* obj?.message?.content || obj?.response || '' for the object payloads
PayloadDelta(p) ==
  CASE p = "mA"   -> <<"A">>          \* {message: {content: "A"}}
    [] p = "mBb"  -> <<"B", "b">>     \* {message: {content: "Bb"}}
    [] p = "rC"   -> <<"C">>          \* {response: "C"}
    [] p = "m0rD" -> <<"D">>          \* {message: {content: ""}, response: "D"}
    [] p = "m0"   -> <<>>             \* {message: {content: ""}, done: true}
    [] OTHER      -> <<>>

Payloads == {"mA", "mBb", "rC", "m0rD", "m0"}

\* JSON.parse(line) and the delta read from the parsed value
ParseLine(line) ==
  IF Len(line) = 3 /\ line[1] = "{" /\ line[2] \in Payloads /\ line[3] = "}"
    THEN [ok |-> TRUE, delta |-> PayloadDelta(line[2])]
  ELSE IF line = <<"null">>
    THEN [ok |-> TRUE, delta |-> <<>>]
    ELSE [ok |-> FALSE, delta |-> <<>>]

\* buffer.indexOf('\n'), 1-based; 0 when there is none
RECURSIVE IndexOfNewline(_, _)
IndexOfNewline(buffer, i) ==
  IF i > Len(buffer) THEN 0
  ELSE IF buffer[i] = "\n" THEN i
  ELSE IndexOfNewline(buffer, i + 1)

\* the body of the try block: parse one non-empty line, add its delta to
\* full and call onDelta with it when it is not empty
MutTakeLine(st, line) ==
  LET p == ParseLine(line)
  IN  IF p.ok
        THEN [st EXCEPT !.full = @ \o p.delta, !.deltas = Append(@, p.delta)]
        ELSE st

TakeLine(st, line) ==
  LET p == ParseLine(line)
  IN  IF p.ok /\ p.delta # <<>>
        THEN [st EXCEPT !.full = @ \o p.delta, !.deltas = Append(@, p.delta)]
        ELSE st

\* a malformed line ends the processing of the chunk and loses the buffer
RECURSIVE MutDrainLines(_)
MutDrainLines(st) ==
  LET idx  == IndexOfNewline(st.buffer, 1)
      line == Trim(SubSeq(st.buffer, 1, idx - 1))
      rest == [st EXCEPT !.buffer = SubSeq(@, idx + 1, Len(@))]
  IN  IF idx = 0 THEN st
      ELSE IF line = <<>> THEN MutDrainLines(rest)
      ELSE IF ~ParseLine(line).ok THEN [st EXCEPT !.buffer = <<>>]
      ELSE MutDrainLines(TakeLine(rest, line))

\* the part of a line left at the end of a chunk is dropped
RECURSIVE DrainWholeLines(_)
DrainWholeLines(st) ==
  LET idx  == IndexOfNewline(st.buffer, 1)
      line == Trim(SubSeq(st.buffer, 1, idx - 1))
      rest == [st EXCEPT !.buffer = SubSeq(@, idx + 1, Len(@))]
  IN  IF idx = 0 THEN st
      ELSE IF line = <<>> THEN DrainWholeLines(rest)
      ELSE DrainWholeLines(TakeLine(rest, line))

MutChunkDrainLines(st) == [DrainWholeLines(st) EXCEPT !.buffer = <<>>]

\* the inner while loop: take the complete lines out of the buffer
RECURSIVE DrainLines(_)
DrainLines(st) ==
  LET idx  == IndexOfNewline(st.buffer, 1)
      line == Trim(SubSeq(st.buffer, 1, idx - 1))
      rest == [st EXCEPT !.buffer = SubSeq(@, idx + 1, Len(@))]
  IN  IF idx = 0 THEN st
      ELSE IF line = <<>> THEN DrainLines(rest)
      ELSE DrainLines(TakeLine(rest, line))

\* flush remainder
FlushRemainder(st) ==
  IF Trim(st.buffer) # <<>> THEN TakeLine(st, Trim(st.buffer)) ELSE st

\* res.ok
StatusOk(status) == status \in 200..299

MutStreamRejects(status, hasBody) == ~hasBody

\* !res.ok || !res.body
StreamRejects(status, hasBody) == ~StatusOk(status) \/ ~hasBody

\* data?.message?.content ?? '' of a non-streaming body
ChatContent(p) ==
  CASE p = "mA"  -> <<"A">>
    [] p = "mBb" -> <<"B", "b">>
    [] OTHER     -> <<>>

(***************************************************************************)
(* Summary Cache: simpleHash, the per-document table, maybeUpdateSummary.  *)
(***************************************************************************)
MaxEntries == 12
SummaryKeyChars == 800

Alphabet == <<"a", "b", "c", "d", "e", "f", "g", "h", "i", "j", "k", "l", "m",
              "n", "o", "p", "q", "r", "s", "t", "u", "v", "w", "x", "y", "z">>

\* the character codes of the lowercase letters
LetterCodes ==
  [c \in {Alphabet[k] : k \in 1..Len(Alphabet)} |->
     96 + (CHOOSE k \in 1..Len(Alphabet) : Alphabet[k] = c)]

\* String.prototype.charCodeAt for the characters of the sample texts
CharCode(c) == IF c \in DOMAIN LetterCodes THEN LetterCodes[c] ELSE 32

\* h = ((h << 5) - h) + c; h |= 0 -- on a 32-bit value kept as two 16-bit
\* halves <<high, low>>
HashStep(h, c) ==
  LET low  == 31 * h[2] + CharCode(c)
      high == 31 * h[1] + (low \div 65536)
  IN  <<high % 65536, low % 65536>>

\* the for loop of simpleHash over s[i..j], by halves of the range
RECURSIVE HashRange(_, _, _, _)
HashRange(s, i, j, h) ==
  IF i > j THEN h
  ELSE IF i = j THEN HashStep(h, s[i])
  ELSE LET m    == (i + j) \div 2
           left == HashRange(s, i, m, h)
       IN  IF left[1] >= 0 THEN HashRange(s, m + 1, j, left) ELSE left

\* String(h >>> 0): the unsigned 32-bit value, as its two halves
simpleHash(s) == HashRange(s, 1, Len(s), <<0, 0>>)

\* a sample text: one letter that tells the versions of the document apart,
\* filler up to the 800th character, and a tail after it
SampleText(id) ==
  IF id.head = 0 THEN <<>>
  ELSE <<Alphabet[id.head]>> \o [i \in 1..(SummaryKeyChars - 1) |-> "x"]
         \o [i \in 1..id.tail |-> "y"]

\* sectionKey = simpleHash(sampleText.slice(0, 800))
SectionKey(text) == simpleHash(Prefix(text, SummaryKeyChars))

\* the section keys of the sample texts, by tail and head (computed once)
SectionKeys ==
  << <<>> \o [h \in 1..Len(Alphabet) |-> SectionKey(SampleText([head |-> h, tail |-> 0]))],
     <<>> \o [h \in 1..Len(Alphabet) |-> SectionKey(SampleText([head |-> h, tail |-> 1]))] >>

\* the section key of a sample text
SectionKeyOf(id) ==
  IF id.head = 0 THEN SectionKey(<<>>) ELSE SectionKeys[id.tail + 1][id.head]

\* getDocId: tab?.url ? simpleHash(tab.url) : 'unknown'; the hash of a URL is
\* written as the URL
DocId(url) == IF url # "none" THEN url ELSE "unknown"

\* loadSummaries: obj?.[k] || {}
LoadSummaries(store, docId) ==
  IF docId \in DOMAIN store THEN store[docId] ELSE {}

\* saveSummaries
SaveSummaries(store, docId, table) ==
  [d \in DOMAIN store \cup {docId} |-> IF d = docId THEN table ELSE store[d]]

\* summaries[sectionKey]?.text
HasEntry(table, key) == \E e \in table : e.sectionKey = key

KeyLess(a, b) == a[1] < b[1] \/ (a[1] = b[1] /\ a[2] < b[2])

\* entry a comes before entry b in Object.values(summaries).sort((a, b) =>
\* b.updatedAt - a.updatedAt): newer first; equal times keep the order of
\* Object.values, which lists these numeric keys in ascending order
SortsBefore(a, b) ==
  \/ a.updatedAt > b.updatedAt
  \/ a.updatedAt = b.updatedAt /\ KeyLess(a.sectionKey, b.sectionKey)

MutCapEntries(table) ==
  {e \in table : Cardinality({o \in table : SortsBefore(o, e)}) <= MaxEntries}

\* keep the first maxEntries of the sorted entries, delete the others
CapEntries(table) ==
  {e \in table : Cardinality({o \in table : SortsBefore(o, e)}) < MaxEntries}

\* summaries[sectionKey] = {sectionKey, text, updatedAt: Date.now()}, then the cap
InsertSummary(table, key, text, at) ==
  CapEntries({e \in table : e.sectionKey # key}
               \cup {[sectionKey |-> key, text |-> text, updatedAt |-> at]})

IdleFlow ==
  [pc |-> "idle", text |-> [head |-> 0, tail |-> 0], key |-> <<0, 0>>,
   docId |-> "", table |-> {}, issuedAt |-> 0, hit |-> FALSE,
   requested |-> FALSE, wrote |-> FALSE, failed |-> FALSE]

\* the text the content script returns for the document as it is now
DocText(tail) == [head |-> doc, tail |-> IF doc = 0 THEN 0 ELSE tail]

FlowBusy(i) == sum[i].pc \notin {"idle", "done"}

\* maybeUpdateSummary(sampleText) is called (not awaited): it asks for the
\* active tab (getDocId)
StartSummary(i, text) ==
  /\ ~FlowBusy(i)
  /\ sum' = [sum EXCEPT ![i] = [IdleFlow EXCEPT !.pc = "docId", !.text = text]]

\* getDocId resolves; the key is computed and the table is requested
SummaryDocId(i) ==
  /\ sum[i].pc = "docId"
  /\ sum' = [sum EXCEPT ![i].pc = "load",
                        ![i].docId = DocId(activeUrl),
                        ![i].key = SectionKeyOf(sum[i].text)]
  /\ UNCHANGED <<persisted, now, doc, activeUrl, switches>>
  /\ UNCHANGED <<repairVars, extractVars, clientVars, schedVars, reqVars>>

\* the table cached already holds the key: nothing is requested or written
MutCachedAlready(table, key) == FALSE

\* if (summaries[sectionKey]?.text) return
CachedAlready(table, key) == HasEntry(table, key)

\* loadSummaries resolves: return when the key is cached, else send the
\* summarisation request (ollamaChat, numPredict 120)
SummaryLoad(i) ==
  /\ sum[i].pc = "load"
  /\ LET table == LoadSummaries(persisted, sum[i].docId)
     IN  IF CachedAlready(table, sum[i].key)
           THEN sum' = [sum EXCEPT ![i].pc = "done", ![i].hit = TRUE]
           ELSE sum' = [sum EXCEPT ![i].pc = "summarize", ![i].table = table,
                                   ![i].issuedAt = now, ![i].requested = TRUE]
  /\ UNCHANGED <<persisted, now, doc, activeUrl, switches>>
  /\ UNCHANGED <<repairVars, extractVars, clientVars, schedVars, reqVars>>

\* what the summarisation request may return
SummaryTexts == { <<" ", "s", "1", " ">> }

\* the request returns a summary with text in it: the entry is inserted in
\* the copy of the table with the time Date.now() gives, the copy is capped
\* and written (saveSummaries). The request took time: the clock reads
\* later than when the request was sent, and never earlier than it last read.
SummaryStore(i) ==
  /\ sum[i].pc = "summarize"
  /\ \E time \in {now, now + 1}, summary \in SummaryTexts :
       LET table == InsertSummary(sum[i].table, sum[i].key, Trim(summary), time)
       IN  /\ time > sum[i].issuedAt
           /\ now' = time
           /\ persisted' = SaveSummaries(persisted, sum[i].docId, table)
           /\ sum' = [sum EXCEPT ![i].pc = "saved", ![i].table = table,
                                 ![i].wrote = TRUE]
  /\ UNCHANGED <<doc, activeUrl, switches>>
  /\ UNCHANGED <<repairVars, extractVars, clientVars, schedVars, reqVars>>

MutSummaryEmpty(i) ==
  /\ sum[i].pc = "summarize"
  /\ persisted' = SaveSummaries(persisted, sum[i].docId,
                                InsertSummary(sum[i].table, sum[i].key, <<>>, now))
  /\ sum' = [sum EXCEPT ![i].pc = "done", ![i].table = {}, ![i].issuedAt = 0]
  /\ UNCHANGED <<now, doc, activeUrl, switches>>
  /\ UNCHANGED <<repairVars, extractVars, clientVars, schedVars, reqVars>>

\* the request fails (caught: '') or returns only white space: nothing is
\* written
SummaryEmpty(i) ==
  /\ sum[i].pc = "summarize"
  /\ sum' = [sum EXCEPT ![i].pc = "done", ![i].table = {}, ![i].issuedAt = 0]
  /\ UNCHANGED <<persisted, now, doc, activeUrl, switches>>
  /\ UNCHANGED <<repairVars, extractVars, clientVars, schedVars, reqVars>>

\* saveSummaries resolves; the active tab is asked for again and told
\* 'Summary cached' (failures of the message are swallowed)
SummaryNotify(i) ==
  /\ sum[i].pc = "saved"
  /\ sum' = [sum EXCEPT ![i].pc = "done", ![i].table = {}, ![i].issuedAt = 0]
  /\ UNCHANGED <<persisted, now, doc, activeUrl, switches>>
  /\ UNCHANGED <<repairVars, extractVars, clientVars, schedVars, reqVars>>

\* an awaited browser call (tabs.query, storage.get) rejects: the call ends
\* with a rejection that its caller swallows
SummaryRejects(i) ==
  /\ sum[i].pc \in {"docId", "load", "saved"}
  /\ sum' = [sum EXCEPT ![i].pc = "done", ![i].failed = TRUE,
                        ![i].table = {}, ![i].issuedAt = 0]
  /\ UNCHANGED <<persisted, now, doc, activeUrl, switches>>
  /\ UNCHANGED <<repairVars, extractVars, clientVars, schedVars, reqVars>>

\* the writer changes the text: a new version of the document
EditDoc(limit) ==
  /\ doc < limit
  /\ doc' = doc + 1
  /\ UNCHANGED <<persisted, sum, now, activeUrl, switches>>
  /\ UNCHANGED <<repairVars, extractVars, clientVars, schedVars, reqVars>>

\* the user activates another tab, or leaves Overleaf
SwitchTab(url, limit) ==
  /\ switches < limit
  /\ url # activeUrl
  /\ activeUrl' = url
  /\ switches' = switches + 1
  /\ UNCHANGED <<persisted, sum, now, doc>>
  /\ UNCHANGED <<repairVars, extractVars, clientVars, schedVars, reqVars>>

(***************************************************************************)
(* Configuration and Scheduler: getSettings, setSettings, ensureAlarm.     *)
(***************************************************************************)
SettingsKeys == {"endpoint", "model", "intervalMin", "paused"}

\* a JavaScript number that may be NaN
Num(n) == [nan |-> FALSE, n |-> n]

NaN == [nan |-> TRUE, n |-> 0]

\* v > k (false when v is NaN)
GreaterThan(v, k) == ~v.nan /\ v.n > k

DEFAULTS ==
  [endpoint |-> "http://localhost:11434", model |-> "gpt-oss:20b",
   intervalMin |-> Num(5), paused |-> TRUE]

MutMerge(base, patch) ==
  [k \in SettingsKeys |-> IF k \in patch.fields THEN patch.value[k] ELSE DEFAULTS[k]]

\* {...base, ...patch}: the fields of the patch over those of the base
Merge(base, patch) ==
  [k \in SettingsKeys |-> IF k \in patch.fields THEN patch.value[k] ELSE base[k]]

\* chrome.storage.local.get(DEFAULTS) spread over DEFAULTS
getSettings(store) == Merge(DEFAULTS, store)

AlarmName == "writetank:tick"

\* chrome.alarms.clear(name)
ClearAlarm(set, name) == {a \in set : a.name # name}

\* chrome.alarms.create(name, {periodInMinutes}): an alarm of the same name
\* is replaced
CreateAlarm(set, name, period) ==
  ClearAlarm(set, name) \cup {[name |-> name, periodInMinutes |-> period]}

MutShouldArm(settings) == ~settings.paused

\* if (!paused && intervalMin > 0)
ShouldArm(settings) ==
  ~settings.paused /\ GreaterThan(settings.intervalMin, 0)

Patch(fields, value) == [fields |-> fields, value |-> value]

\* Math.max(1, Math.min(60, parseInt(value || '5', 10))) of the older popup,
\* and the same with the Number.isFinite guard of the newer one
SavedIntervals == {Num(60), NaN}

\* the patches the views send: the pause toggle and checkbox, and Save
ViewPatches ==
  {Patch({"paused"}, [DEFAULTS EXCEPT !.paused = b]) : b \in BOOLEAN}
    \cup {Patch({"intervalMin", "model", "endpoint"},
                [DEFAULTS EXCEPT !.intervalMin = v]) : v \in SavedIntervals}

EmptyPatch == Patch({}, DEFAULTS)

IdleHandler ==
  [kind |-> "none", pc |-> "idle", patch |-> EmptyPatch, prev |-> DEFAULTS,
   seen |-> DEFAULTS, runs |-> 0, before |-> {}, afterRun |-> {}]

HandlerBusy(h) == cfg[h].pc \notin {"idle", "done"}

ConfigurationIdle == \A h \in DOMAIN cfg : ~HandlerBusy(h)

\* a handler may begin: one at a time when `exclusive`
MayBegin(h, exclusive) ==
  /\ ~HandlerBusy(h)
  /\ exclusive => ConfigurationIdle

\* 'settings:set' arrives: setSettings(msg.patch || {}) asks for the settings
SettingsSet(h, patch, exclusive) ==
  /\ MayBegin(h, exclusive)
  /\ cfg' = [cfg EXCEPT ![h] = [IdleHandler EXCEPT !.kind = "set", !.pc = "get",
                                                   !.patch = patch,
                                                   !.before = alarms]]
  /\ UNCHANGED <<stored, alarms, ticks, stale>>
  /\ UNCHANGED <<repairVars, extractVars, clientVars, cacheVars, reqVars>>

\* runtime.onInstalled: setSettings({}), then ensureAlarm
OnInstalled(h, exclusive) ==
  /\ MayBegin(h, exclusive)
  /\ cfg' = [cfg EXCEPT ![h] = [IdleHandler EXCEPT !.kind = "installed",
                                                   !.pc = "get",
                                                   !.before = alarms]]
  /\ UNCHANGED <<stored, alarms, ticks, stale>>
  /\ UNCHANGED <<repairVars, extractVars, clientVars, cacheVars, reqVars>>

\* runtime.onStartup: ensureAlarm
OnStartup(h, exclusive) ==
  /\ MayBegin(h, exclusive)
  /\ cfg' = [cfg EXCEPT ![h] = [IdleHandler EXCEPT !.kind = "startup",
                                                   !.pc = "eaGet",
                                                   !.before = alarms]]
  /\ UNCHANGED <<stored, alarms, ticks, stale>>
  /\ UNCHANGED <<repairVars, extractVars, clientVars, cacheVars, reqVars>>

\* setSettings: const prev = await getSettings()
SetRead(h) ==
  /\ cfg[h].pc = "get"
  /\ cfg' = [cfg EXCEPT ![h].pc = "set", ![h].prev = getSettings(stored)]
  /\ UNCHANGED <<stored, alarms, ticks, stale>>
  /\ UNCHANGED <<repairVars, extractVars, clientVars, cacheVars, reqVars>>

\* setSettings: await chrome.storage.local.set({...prev, ...patch})
SetWrite(h) ==
  /\ cfg[h].pc = "set"
  /\ stored' = Patch(SettingsKeys, Merge(cfg[h].prev, cfg[h].patch))
  /\ cfg' = [cfg EXCEPT ![h].pc = "eaGet", ![h].prev = DEFAULTS,
                        ![h].patch = EmptyPatch]
  /\ UNCHANGED <<alarms, ticks, stale>>
  /\ UNCHANGED <<repairVars, extractVars, clientVars, cacheVars, reqVars>>

\* ensureAlarm: const {paused, intervalMin} = await getSettings()
EnsureRead(h) ==
  /\ cfg[h].pc = "eaGet"
  /\ cfg' = [cfg EXCEPT ![h].pc = "eaClear", ![h].seen = getSettings(stored)]
  /\ UNCHANGED <<stored, alarms, ticks, stale>>
  /\ UNCHANGED <<repairVars, extractVars, clientVars, cacheVars, reqVars>>

\* ensureAlarm: await chrome.alarms.clear('writetank:tick')
EnsureClear(h) ==
  /\ cfg[h].pc = "eaClear"
  /\ alarms' = ClearAlarm(alarms, AlarmName)
  /\ cfg' = [cfg EXCEPT ![h].pc = "eaCreate"]
  /\ UNCHANGED <<stored, ticks, stale>>
  /\ UNCHANGED <<repairVars, extractVars, clientVars, cacheVars, reqVars>>

\* ensureAlarm: the alarm is created when the settings read ask for it. The
\* handler goes on: onInstalled to its own ensureAlarm, the others end
\* ('settings:set' with sendResponse({ok: true})).
EnsureCreate(h) ==
  /\ cfg[h].pc = "eaCreate"
  /\ alarms' = IF ShouldArm(cfg[h].seen)
                 THEN CreateAlarm(alarms, AlarmName, cfg[h].seen.intervalMin)
                 ELSE alarms
  /\ LET again == cfg[h].kind = "installed" /\ cfg[h].runs = 0
     IN  /\ cfg' = [cfg EXCEPT ![h].pc = IF again THEN "eaGet" ELSE "done",
                               ![h].seen = DEFAULTS,
                               ![h].runs = cfg[h].runs + 1,
                               ![h].afterRun = IF again THEN alarms'
                                               ELSE cfg[h].afterRun]
         /\ stale' = IF again THEN stale
                     ELSE {t \in DOMAIN ticks : ticks[t].pc \notin {"idle", "done"}}
  /\ UNCHANGED <<stored, ticks>>
  /\ UNCHANGED <<repairVars, extractVars, clientVars, cacheVars, reqVars>>

(***************************************************************************)
(* Coaching Engine: the alarm listener (a scheduled tick).                 *)
(***************************************************************************)
\* 'No substantial issues detected. Keep going!'
NothingToReport ==
  <<
    "N", "o", " ", "s", "u", "b", "s", "t", "a", "n", "t", "i", "a",
    "l", " ", "i", "s", "s", "u", "e", "s", " ", "d", "e", "t", "e",
    "c", "t", "e", "d", ".", " ", "K", "e", "e", "p", " ", "g", "o",
    "i", "n", "g", "!"
  >>

MutSafeOut(out) == out

\* (out && out.trim()) ? out : 'No substantial issues detected. Keep going!'
SafeOut(out) == IF Trim(out) # <<>> THEN out ELSE NothingToReport

\* the final text of a coaching pass
CoachFinal(out) == OutputRepair(SafeOut(out))

\* what the model may return to a coaching request
CoachOutputs == { <<" ">>, <<"a", ".", "b">> }

\* the ways the model request fails: fetch rejects, the status is not a
\* success
ChatFailures == {"network", "http"}

IdleTick ==
  [pc |-> "idle", tab |-> "none", sample |-> [head |-> 0, tail |-> 0],
   source |-> "none", sent |-> <<>>, spawned |-> FALSE, requests |-> 0,
   failure |-> "none", escaped |-> FALSE, out |-> <<>>, final |-> <<>>]

TickBusy(t) == ticks[t].pc \notin {"idle", "done"}

\* the listener returns: what is left of the invocation is what it sent and
\* how it ended
TickEnds(t) ==
  [ticks EXCEPT ![t] = [IdleTick EXCEPT !.pc = "done",
                                        !.sent = ticks[t].sent,
                                        !.failure = ticks[t].failure,
                                        !.escaped = ticks[t].escaped]]

\* sample?.text
HasText(text) == text.head # 0

MutNeedsFallback(text) == TRUE

\* if (!sample?.text)
NeedsFallback(text) == ~HasText(text)

\* the stages of the listener at which the text is asked for or the model
\* is called
TickWorking(t) ==
  ticks[t].pc \in {"scan", "visible", "whole", "read", "spawn", "chat", "deliver", "catch"}

\* the alarm fires: the listener is invoked and asks for the settings
TickFire(t) ==
  /\ ~TickBusy(t)
  /\ \E a \in alarms : a.name = AlarmName
  /\ ticks' = [ticks EXCEPT ![t] = [IdleTick EXCEPT !.pc = "settings"]]
  /\ stale' = stale \ {t}
  /\ UNCHANGED <<stored, alarms, cfg>>
  /\ UNCHANGED <<repairVars, extractVars, clientVars, cacheVars, reqVars>>

MutTickSkips(settings) == FALSE

\* if (paused) return
TickSkips(settings) == settings.paused

\* getSettings resolves; the active tab is asked for unless paused
TickSettings(t) ==
  /\ ticks[t].pc = "settings"
  /\ ticks' = IF TickSkips(getSettings(stored))
                THEN TickEnds(t) ELSE [ticks EXCEPT ![t].pc = "tab"]
  /\ UNCHANGED <<stored, alarms, cfg, stale>>
  /\ UNCHANGED <<repairVars, extractVars, clientVars, cacheVars, reqVars>>

\* getActiveOverleafTab resolves: return when there is no tab, else send
\* the status 'Scanning visible text...'
TickTab(t) ==
  /\ ticks[t].pc = "tab"
  /\ ticks' = IF activeUrl = "none"
                THEN TickEnds(t)
                ELSE [ticks EXCEPT ![t].pc = "scan", ![t].tab = activeUrl,
                                   ![t].sent = Append(ticks[t].sent, "Scanning")]
  /\ UNCHANGED <<stored, alarms, cfg, stale>>
  /\ UNCHANGED <<repairVars, extractVars, clientVars, cacheVars, reqVars>>

\* the status message settles (a failure is swallowed); grabText is sent
\* with mode 'visible'
TickScan(t) ==
  /\ ticks[t].pc = "scan"
  /\ ticks' = [ticks EXCEPT ![t].pc = "visible",
                            ![t].sent = Append(ticks[t].sent, "grabText:visible")]
  /\ UNCHANGED <<stored, alarms, cfg, stale>>
  /\ UNCHANGED <<repairVars, extractVars, clientVars, cacheVars, reqVars>>

\* the view answers the visible grabText (null when the message fails);
\* without text the whole document is asked for
TickVisible(t) ==
  /\ ticks[t].pc = "visible"
  /\ \E answered \in BOOLEAN :
       LET text == IF answered THEN DocText(0) ELSE [head |-> 0, tail |-> 0]
           seen == Append(ticks[t].sent,
                          IF HasText(text) THEN "visible:text" ELSE "visible:none")
       IN  ticks' = IF NeedsFallback(text)
                      THEN [ticks EXCEPT ![t].pc = "whole",
                                         ![t].sent = Append(seen, "grabText")]
                      ELSE [ticks EXCEPT ![t].pc = "read", ![t].sample = text,
                                         ![t].source = "visible",
                                         ![t].sent = Append(seen, "Read")]
  /\ UNCHANGED <<stored, alarms, cfg, stale>>
  /\ UNCHANGED <<repairVars, extractVars, clientVars, cacheVars, reqVars>>

MutGivesUp(text) == FALSE

\* if (!sample?.text) return
GivesUp(text) == ~HasText(text)

\* the view answers the full grabText; without text the listener returns
TickWhole(t) ==
  /\ ticks[t].pc = "whole"
  /\ \E answered \in BOOLEAN :
       LET text == IF answered THEN DocText(1) ELSE [head |-> 0, tail |-> 0]
           seen == Append(ticks[t].sent,
                          IF HasText(text) THEN "whole:text" ELSE "whole:none")
       IN  ticks' = IF GivesUp(text)
                      THEN [TickEnds(t) EXCEPT ![t].sent = seen]
                      ELSE [ticks EXCEPT ![t].pc = "read", ![t].sample = text,
                                         ![t].source = "fallback-full",
                                         ![t].sent = Append(seen, "Read")]
  /\ UNCHANGED <<stored, alarms, cfg, stale>>
  /\ UNCHANGED <<repairVars, extractVars, clientVars, cacheVars, reqVars>>

\* the 'Read ...' status settles: maybeUpdateSummary(sample.text) is called
\* and not awaited, and the status 'Thinking...' is sent
TickSpawn(t) ==
  /\ ticks[t].pc = "read"
  /\ \E i \in DOMAIN sum : StartSummary(i, ticks[t].sample)
  /\ ticks' = [ticks EXCEPT ![t].pc = "spawn", ![t].spawned = TRUE,
                            ![t].source = "none",
                            ![t].sent = ticks[t].sent \o <<"maybeUpdateSummary", "Thinking">>]
  /\ UNCHANGED <<persisted, now, doc, activeUrl, switches>>
  /\ UNCHANGED <<stored, alarms, cfg, stale>>
  /\ UNCHANGED <<repairVars, extractVars, clientVars, reqVars>>

\* the 'Thinking...' status settles: ollamaChat is called (one request)
TickAsk(t) ==
  /\ ticks[t].pc = "spawn"
  /\ ticks' = [ticks EXCEPT ![t].pc = "chat", ![t].requests = ticks[t].requests + 1,
                            ![t].sent = Append(ticks[t].sent, "ollamaChat")]
  /\ UNCHANGED <<stored, alarms, cfg, stale>>
  /\ UNCHANGED <<repairVars, extractVars, clientVars, cacheVars, reqVars>>

MutCaughtByTick(stage) == stage = "chat"

\* the try block of the listener: the model call and the delivery of the
\* result are inside it
CaughtByTick(stage) == stage \in {"chat", "deliver"}

MutCatchLeadsTo == "spawn"

\* where a caught failure leads: to the catch block, which reports the error
\* and ends the handler; the model is not asked again
CatchLeadsTo == "catch"

\* a failure at a stage of the listener: to the catch block when the stage
\* is in the try block, else out of the listener
TickThrows(t, stage, failure) ==
  IF CaughtByTick(stage)
    THEN [ticks EXCEPT ![t].pc = CatchLeadsTo, ![t].failure = failure,
                       ![t].sent = Append(ticks[t].sent, "(error) Model unavailable")]
    ELSE [ticks EXCEPT ![t] = [IdleTick EXCEPT !.pc = "done",
                                               !.sent = ticks[t].sent,
                                               !.failure = failure,
                                               !.escaped = TRUE]]

\* the model call fails: ollamaChat throws
TickChatFails(t) ==
  /\ ticks[t].pc = "chat"
  /\ \E failure \in ChatFailures : ticks' = TickThrows(t, "chat", failure)
  /\ UNCHANGED <<stored, alarms, cfg, stale>>
  /\ UNCHANGED <<repairVars, extractVars, clientVars, cacheVars, reqVars>>

\* the model call returns: the output is repaired and sent as 'coach:answer'
TickChatReturns(t) ==
  /\ ticks[t].pc = "chat"
  /\ \E out \in CoachOutputs :
       ticks' = [ticks EXCEPT ![t].pc = "deliver", ![t].out = out,
                              ![t].final = CoachFinal(out),
                              ![t].sent = Append(ticks[t].sent, "coach:answer")]
  /\ UNCHANGED <<stored, alarms, cfg, stale>>
  /\ UNCHANGED <<repairVars, extractVars, clientVars, cacheVars, reqVars>>

\* the view receives the answer: the listener ends
TickDelivered(t) ==
  /\ ticks[t].pc = "deliver"
  /\ ticks' = TickEnds(t)
  /\ UNCHANGED <<stored, alarms, cfg, stale>>
  /\ UNCHANGED <<repairVars, extractVars, clientVars, cacheVars, reqVars>>

\* the answer cannot be delivered (the tab is gone): sendMessage rejects
TickDeliveryFails(t) ==
  /\ ticks[t].pc = "deliver"
  /\ ticks' = TickThrows(t, "deliver", "delivery")
  /\ UNCHANGED <<stored, alarms, cfg, stale>>
  /\ UNCHANGED <<repairVars, extractVars, clientVars, cacheVars, reqVars>>

\* the catch block: the '(error) Model unavailable' status settles (a
\* failure is swallowed) and the listener ends
TickCatch(t) ==
  /\ ticks[t].pc = "catch"
  /\ ticks' = TickEnds(t)
  /\ UNCHANGED <<stored, alarms, cfg, stale>>
  /\ UNCHANGED <<repairVars, extractVars, clientVars, cacheVars, reqVars>>

(***************************************************************************)
(* The Summary Cache lookup: pickBestSummary.                              *)
(***************************************************************************)
Capitals == <<"A", "B", "C", "D", "E", "F", "G", "H", "I", "J", "K", "L", "M",
              "N", "O", "P", "Q", "R", "S", "T", "U", "V", "W", "X", "Y", "Z">>

Digits == {"0", "1", "2", "3", "4", "5", "6", "7", "8", "9"}

\* String.prototype.toLowerCase, one character
ToLowerCase(c) ==
  IF \E k \in DOMAIN Capitals : Capitals[k] = c
    THEN Alphabet[CHOOSE k \in DOMAIN Capitals : Capitals[k] = c]
    ELSE c

\* [a-z0-9]
IsTokenChar(c) == c \in DOMAIN LetterCodes \/ c \in Digits

\* the matches of /[a-z0-9]{3,}/g in s from position i on, run being the
\* token characters read since the last other character
RECURSIVE TokenScan(_, _, _)
TokenScan(s, i, run) ==
  LET found == IF Len(run) >= 3 THEN {run} ELSE {}
  IN  IF i > Len(s) THEN found
      ELSE IF IsTokenChar(s[i]) THEN TokenScan(s, i + 1, Append(run, s[i]))
      ELSE found \cup TokenScan(s, i + 1, <<>>)

\* tokenize: new Set(s.toLowerCase().match(/[a-z0-9]{3,}/g) || [])
tokenize(s) == TokenScan([k \in DOMAIN s |-> ToLowerCase(s[k])], 1, <<>>)

\* Object.values(summaries): the entries by ascending key
RECURSIVE ObjectValues(_)
ObjectValues(table) ==
  IF table = {} THEN <<>>
  ELSE LET first == CHOOSE e \in table :
                      \A o \in table \ {e} : KeyLess(e.sectionKey, o.sectionKey)
       IN  <<first>> \o ObjectValues(table \ {first})

\* entries.sort((a, b) => b.updatedAt - a.updatedAt)[0]: the newest entry,
\* the first of them in the array when several are as new (the sort is stable)
NewestFirst(entries) ==
  entries[CHOOSE k \in DOMAIN entries :
            \A j \in DOMAIN entries :
              \/ entries[j].updatedAt < entries[k].updatedAt
              \/ entries[j].updatedAt = entries[k].updatedAt /\ k <= j]

\* let score = 0; for (const w of sel) if (t.has(w)) score++
Score(sel, text) == Cardinality(sel \cap tokenize(text))

\* the for loop over the entries from position k on: best is <<>> (undefined)
\* or holds the entry kept so far
RECURSIVE BestLoop(_, _, _, _, _)
BestLoop(entries, k, sel, best, bestScore) ==
  IF k > Len(entries) THEN best
  ELSE LET score == Score(sel, entries[k].text)
       IN  IF score > bestScore
             THEN BestLoop(entries, k + 1, sel, <<entries[k]>>, score)
             ELSE BestLoop(entries, k + 1, sel, best, bestScore)

\* pickBestSummary(provided, summaries): <<>> for undefined, else the entry
pickBestSummary(provided, summaries) ==
  LET entries == ObjectValues(summaries)
      sel     == tokenize(provided)
      best    == BestLoop(entries, 1, sel, <<>>, -1)
  IN  IF Len(entries) = 0 THEN <<>>
      ELSE IF sel = {} THEN <<NewestFirst(entries)>>
      ELSE IF best # <<>> THEN best
      ELSE <<NewestFirst(entries)>>

(***************************************************************************)
(* The message listener: qa, coach, coach:expand and run-now.              *)
(***************************************************************************)
TrimCharsMax == 1500

\* trimChars(s, max = 1500)
trimChars(s) == IF Len(s) > TrimCharsMax THEN SubSeq(s, 1, TrimCharsMax) ELSE s

\* '\n\nSelection:\n'
SelectionLabel ==
  <<"\n", "\n", "S", "e", "l", "e", "c", "t", "i", "o", "n", ":", "\n">>

\* the context of a question: the text provided, or the summary picked with
\* the text provided after it
QaContext(best, provided) ==
  IF best # <<>> /\ best[1].text # <<>>
    THEN trimChars(best[1].text
                     \o (IF provided # <<>> THEN SelectionLabel \o provided ELSE <<>>))
    ELSE trimChars(provided)

\* the texts a question comes with
ProvidedTexts == { <<>>, <<"s", "1">>, <<"A", "b", "c", " ", "x", "y">> }

\* what the model may stream back
StreamOutputs == { <<" ">>, <<"a", ".", "b">> }

Commands == {"qa", "coach", "coach:expand", "run-now"}

IdleRequest ==
  [kind |-> "none", pc |-> "idle", provided |-> <<>>, context |-> <<>>,
   docId |-> "", lookup |-> "none", tab |-> "none", sample |-> [head |-> 0, tail |-> 0],
   sent |-> <<>>, requests |-> 0, deltas |-> <<>>, pushed |-> <<>>,
   out |-> <<>>, final |-> <<>>,
   ok |-> "none", text |-> <<>>, error |-> "none", failure |-> "none"]

ReqBusy(r) == reqs[r].pc \notin {"idle", "done"}

MutOutputOf(r) == 1

\* let streamedOutput = '': the text a streaming handler accumulates is a
\* local of its own invocation
OutputOf(r) == r

\* sendResponse({ok: true, text}) and the handler returns
Responds(r, text) ==
  [reqs EXCEPT ![r].pc = "done", ![r].ok = "true", ![r].text = text,
               ![r].tab = "none", ![r].sample = [head |-> 0, tail |-> 0],
               ![r].context = <<>>, ![r].provided = <<>>, ![r].docId = ""]

\* sendResponse({ok: false, error}) and the handler returns
Refuses(r, error) ==
  [reqs EXCEPT ![r].pc = "done", ![r].ok = "false", ![r].error = error,
               ![r].tab = "none", ![r].sample = [head |-> 0, tail |-> 0],
               ![r].context = <<>>, ![r].provided = <<>>, ![r].docId = ""]

\* a rejection nothing catches: the handler ends and no response is sent
Escapes(r, failure) ==
  [reqs EXCEPT ![r].pc = "done", ![r].failure = failure,
               ![r].tab = "none", ![r].sample = [head |-> 0, tail |-> 0],
               ![r].context = <<>>, ![r].provided = <<>>, ![r].docId = ""]

\* a message arrives: qa asks for the document id, coach and coach:expand
\* call ollamaChat, run-now asks for the active tab
ReqArrives(r) ==
  /\ ~ReqBusy(r)
  /\ \E kind \in Commands, provided \in ProvidedTexts :
       reqs' = [reqs EXCEPT ![r] =
         IF kind = "qa"
           THEN [IdleRequest EXCEPT !.kind = kind, !.pc = "docId",
                                    !.provided = provided,
                                    !.context = trimChars(provided)]
         ELSE IF kind = "run-now"
           THEN [IdleRequest EXCEPT !.kind = kind, !.pc = "tab"]
         ELSE [IdleRequest EXCEPT !.kind = kind, !.pc = "chat", !.requests = 1,
                                  !.provided = trimChars(provided),
                                  !.sent = <<"ollamaChat">>]]
  /\ UNCHANGED <<pick, panel>>
  /\ UNCHANGED <<repairVars, extractVars, clientVars, cacheVars, schedVars>>

\* qa: getDocId resolves and the table of the document is requested
QaDocId(r) ==
  /\ reqs[r].kind = "qa" /\ reqs[r].pc = "docId"
  /\ reqs' = [reqs EXCEPT ![r].pc = "load", ![r].docId = DocId(activeUrl)]
  /\ UNCHANGED <<pick, panel>>
  /\ UNCHANGED <<repairVars, extractVars, clientVars, cacheVars, schedVars>>

\* qa: loadSummaries resolves; the best summary, if any, goes before the
\* text provided; the active tab is asked for
QaLoad(r) ==
  /\ reqs[r].kind = "qa" /\ reqs[r].pc = "load"
  /\ LET best == pickBestSummary(reqs[r].provided,
                                 LoadSummaries(persisted, reqs[r].docId))
     IN  reqs' = [reqs EXCEPT ![r].pc = "qatab", ![r].docId = "",
                              ![r].lookup = IF best = <<>> THEN "miss" ELSE "hit",
                              ![r].context = QaContext(best, reqs[r].provided)]
  /\ UNCHANGED <<pick, panel>>
  /\ UNCHANGED <<repairVars, extractVars, clientVars, cacheVars, schedVars>>

MutLookupCaught == FALSE

\* try { getDocId, loadSummaries, pickBestSummary } catch {}
LookupCaught == TRUE

\* qa: getDocId or loadSummaries rejects; the context stays the text provided
QaLookupFails(r) ==
  /\ reqs[r].kind = "qa" /\ reqs[r].pc \in {"docId", "load"}
  /\ reqs' = IF LookupCaught
               THEN [reqs EXCEPT ![r].pc = "qatab", ![r].docId = "",
                                 ![r].lookup = "failed"]
               ELSE Escapes(r, "lookup")
  /\ UNCHANGED <<pick, panel>>
  /\ UNCHANGED <<repairVars, extractVars, clientVars, cacheVars, schedVars>>

\* qa: getActiveOverleafTab resolves and ollamaChatStream is called
QaTab(r) ==
  /\ reqs[r].kind = "qa" /\ reqs[r].pc = "qatab"
  /\ reqs' = [reqs EXCEPT ![r].pc = "stream", ![r].tab = activeUrl,
                          ![OutputOf(r)].out = <<>>,
                          ![r].requests = reqs[r].requests + 1,
                          ![r].sent = Append(reqs[r].sent, "ollamaChatStream")]
  /\ UNCHANGED <<pick, panel>>
  /\ UNCHANGED <<repairVars, extractVars, clientVars, cacheVars, schedVars>>

\* qa: getActiveOverleafTab rejects, inside the try block of the request
QaTabFails(r) ==
  /\ reqs[r].kind = "qa" /\ reqs[r].pc = "qatab"
  /\ reqs' = [Refuses(r, "tabs") EXCEPT ![r].failure = "tabs"]
  /\ UNCHANGED <<pick, panel>>
  /\ UNCHANGED <<repairVars, extractVars, clientVars, cacheVars, schedVars>>

\* const finalOutput = ensureLatexCompleteness(streamedOutput)
QaFinal(out) == ensureLatexCompleteness(out)

\* qa: the stream ends; every delta went to the tab, if there is one; the
\* answer is completed and sent as the response
QaStreamReturns(r) ==
  /\ reqs[r].kind = "qa" /\ reqs[r].pc = "stream"
  /\ \E out \in StreamOutputs :
       reqs' = [Responds(r, QaFinal(out)) EXCEPT
                  ![r].out = out, ![r].final = QaFinal(out),
                  ![r].sent = reqs[r].sent \o
                      (IF reqs[r].tab # "none" THEN <<"qa:answer:delta">> ELSE <<>>)]
  /\ UNCHANGED <<pick, panel>>
  /\ UNCHANGED <<repairVars, extractVars, clientVars, cacheVars, schedVars>>

\* qa, coach, coach:expand: the model call throws; the catch block responds
\* with the error
ReqModelFails(r) ==
  /\ reqs[r].kind \in {"qa", "coach", "coach:expand"}
  /\ reqs[r].pc \in {"stream", "chat"}
  /\ \E failure \in ChatFailures :
       reqs' = [Refuses(r, failure) EXCEPT ![r].failure = failure]
  /\ UNCHANGED <<pick, panel>>
  /\ UNCHANGED <<repairVars, extractVars, clientVars, cacheVars, schedVars>>

\* coach, coach:expand: ollamaChat returns; the output is repaired and sent
\* as the response
CoachChatReturns(r) ==
  /\ reqs[r].kind \in {"coach", "coach:expand"} /\ reqs[r].pc = "chat"
  /\ \E out \in CoachOutputs :
       reqs' = [Responds(r, CoachFinal(out)) EXCEPT
                  ![r].out = out, ![r].final = CoachFinal(out)]
  /\ UNCHANGED <<pick, panel>>
  /\ UNCHANGED <<repairVars, extractVars, clientVars, cacheVars, schedVars>>

\* run-now: getActiveOverleafTab resolves: 'No Overleaf tab' when there is
\* none, else the status 'Scanning visible text...' is sent
RunTab(r) ==
  /\ reqs[r].kind = "run-now" /\ reqs[r].pc = "tab"
  /\ reqs' = IF activeUrl = "none"
               THEN Refuses(r, "No Overleaf tab")
               ELSE [reqs EXCEPT ![r].pc = "scan", ![r].tab = activeUrl,
                                 ![r].sent = Append(reqs[r].sent, "Scanning")]
  /\ UNCHANGED <<pick, panel>>
  /\ UNCHANGED <<repairVars, extractVars, clientVars, cacheVars, schedVars>>

\* run-now: getActiveOverleafTab rejects, before the try block
RunTabFails(r) ==
  /\ reqs[r].kind = "run-now" /\ reqs[r].pc = "tab"
  /\ reqs' = Escapes(r, "tabs")
  /\ UNCHANGED <<pick, panel>>
  /\ UNCHANGED <<repairVars, extractVars, clientVars, cacheVars, schedVars>>

\* run-now: the status settles (a failure is swallowed); grabText is sent
\* with mode 'visible'
RunScan(r) ==
  /\ reqs[r].kind = "run-now" /\ reqs[r].pc = "scan"
  /\ reqs' = [reqs EXCEPT ![r].pc = "visible",
                          ![r].sent = Append(reqs[r].sent, "grabText:visible")]
  /\ UNCHANGED <<pick, panel>>
  /\ UNCHANGED <<repairVars, extractVars, clientVars, cacheVars, schedVars>>

\* run-now: the view answers the visible grabText (null when the message
\* fails); without text the whole document is asked for
RunVisible(r) ==
  /\ reqs[r].kind = "run-now" /\ reqs[r].pc = "visible"
  /\ \E answered \in BOOLEAN :
       LET text == IF answered THEN DocText(0) ELSE [head |-> 0, tail |-> 0]
           seen == Append(reqs[r].sent,
                          IF ~answered THEN "visible:failed"
                          ELSE IF HasText(text) THEN "visible:text" ELSE "visible:none")
       IN  reqs' = IF ~HasText(text)
                     THEN [reqs EXCEPT ![r].pc = "whole",
                                       ![r].sent = Append(seen, "grabText")]
                     ELSE [reqs EXCEPT ![r].pc = "read", ![r].sample = text,
                                       ![r].sent = Append(seen, "Read")]
  /\ UNCHANGED <<pick, panel>>
  /\ UNCHANGED <<repairVars, extractVars, clientVars, cacheVars, schedVars>>

\* run-now: the view answers the full grabText; without text the response
\* is 'No text'
RunWhole(r) ==
  /\ reqs[r].kind = "run-now" /\ reqs[r].pc = "whole"
  /\ \E answered \in BOOLEAN :
       LET text == IF answered THEN DocText(1) ELSE [head |-> 0, tail |-> 0]
           seen == Append(reqs[r].sent,
                          IF ~answered THEN "whole:failed"
                          ELSE IF HasText(text) THEN "whole:text" ELSE "whole:none")
       IN  reqs' = IF ~HasText(text)
                     THEN [Refuses(r, "No text") EXCEPT ![r].sent = seen]
                     ELSE [reqs EXCEPT ![r].pc = "read", ![r].sample = text,
                                       ![r].sent = Append(seen, "Read")]
  /\ UNCHANGED <<pick, panel>>
  /\ UNCHANGED <<repairVars, extractVars, clientVars, cacheVars, schedVars>>

\* run-now: the 'Read ...' status settles: maybeUpdateSummary(sample.text)
\* is called and not awaited, and the status 'Thinking...' is sent
RunSpawn(r) ==
  /\ reqs[r].kind = "run-now" /\ reqs[r].pc = "read"
  /\ \E i \in DOMAIN sum : StartSummary(i, reqs[r].sample)
  /\ reqs' = [reqs EXCEPT ![r].pc = "spawn",
                          ![r].sent = reqs[r].sent \o <<"maybeUpdateSummary", "Thinking">>]
  /\ UNCHANGED <<persisted, now, doc, activeUrl, switches>>
  /\ UNCHANGED <<pick, panel>>
  /\ UNCHANGED <<repairVars, extractVars, clientVars, schedVars>>

\* run-now: the 'Thinking...' status settles: ollamaChatStream is called
RunAsk(r) ==
  /\ reqs[r].kind = "run-now" /\ reqs[r].pc = "spawn"
  /\ reqs' = [reqs EXCEPT ![r].pc = "stream", ![r].sample = [head |-> 0, tail |-> 0],
                          ![OutputOf(r)].out = <<>>,
                          ![r].requests = reqs[r].requests + 1,
                          ![r].sent = Append(reqs[r].sent, "ollamaChatStream")]
  /\ UNCHANGED <<pick, panel>>
  /\ UNCHANGED <<repairVars, extractVars, clientVars, cacheVars, schedVars>>

\* run-now: the stream ends; every delta went to the tab; the output is
\* repaired and sent to the tab as 'coach:answer'
RunStreamReturns(r) ==
  /\ reqs[r].kind = "run-now" /\ reqs[r].pc = "stream"
  /\ \E out \in StreamOutputs :
       reqs' = [reqs EXCEPT ![r].pc = "deliver", ![r].out = out,
                            ![r].final = CoachFinal(out),
                            ![r].sent = reqs[r].sent \o
                                          <<"coach:answer:delta", "coach:answer">>]
  /\ UNCHANGED <<pick, panel>>
  /\ UNCHANGED <<repairVars, extractVars, clientVars, cacheVars, schedVars>>

\* run-now: the tab received the answer: sendResponse({ok: true})
RunDelivered(r) ==
  /\ reqs[r].kind = "run-now" /\ reqs[r].pc = "deliver"
  /\ reqs' = Responds(r, <<>>)
  /\ UNCHANGED <<pick, panel>>
  /\ UNCHANGED <<repairVars, extractVars, clientVars, cacheVars, schedVars>>

\* run-now: the model call throws, or the answer cannot be delivered: the
\* catch block sends the error as a status
RunThrows(r) ==
  /\ reqs[r].kind = "run-now"
  /\ \E failure \in ChatFailures \cup {"delivery"} :
       /\ reqs[r].pc = (IF failure = "delivery" THEN "deliver" ELSE "stream")
       /\ reqs' = [reqs EXCEPT ![r].pc = CatchLeadsTo, ![r].failure = failure,
                               ![r].sent = Append(reqs[r].sent, "(error)")]
  /\ UNCHANGED <<pick, panel>>
  /\ UNCHANGED <<repairVars, extractVars, clientVars, cacheVars, schedVars>>

\* run-now: the error status settles (a failure is swallowed):
\* sendResponse({ok: false, error})
RunCatch(r) ==
  /\ reqs[r].kind = "run-now" /\ reqs[r].pc = "catch"
  /\ reqs' = Refuses(r, reqs[r].failure)
  /\ UNCHANGED <<pick, panel>>
  /\ UNCHANGED <<repairVars, extractVars, clientVars, cacheVars, schedVars>>

\* the steps of the message listener's invocation r
ReqNext(r) ==
  \/ ReqArrives(r) \/ QaDocId(r) \/ QaLoad(r) \/ QaLookupFails(r) \/ QaTab(r)
  \/ QaTabFails(r) \/ QaStreamReturns(r) \/ ReqModelFails(r)
  \/ CoachChatReturns(r)
  \/ RunTab(r) \/ RunTabFails(r) \/ RunScan(r) \/ RunVisible(r) \/ RunWhole(r)
  \/ RunSpawn(r) \/ RunAsk(r) \/ RunStreamReturns(r) \/ RunDelivered(r)
  \/ RunThrows(r) \/ RunCatch(r)

(***************************************************************************)
(* Output Repair applied to bounded model outputs.                         *)
(***************************************************************************)
MaxPieces == 4

Itemize == Environments[1]
Table   == Environments[7]

\* the model outputs tried: concatenations of at most MaxPieces of these
RepairPieces ==
  { <<"a">>, <<" ">>, <<".">>, <<"}">>,
    BeginMarker(Itemize), EndMarker(Itemize), BeginMarker(Table) }

RECURSIVE Flatten(_)
Flatten(ps) == IF ps = <<>> THEN <<>> ELSE Head(ps) \o Flatten(Tail(ps))

RepairInputs ==
  {Flatten(ps) : ps \in UNION {[1..n -> RepairPieces] : n \in 0..MaxPieces}}

\* the model output is repaired (background.ts 797-799), and the structural
\* pass is also applied to it alone (background.ts 692)
RepairOnce ==
  /\ rPc = "raw"
  /\ rOnce' = OutputRepair(rText)
  /\ rLatex' = ensureLatexCompleteness(rText)
  /\ rPc' = "once"
  /\ UNCHANGED <<rText, rTwice>>
  /\ UNCHANGED <<extractVars, clientVars, cacheVars, schedVars, reqVars>>

\* the repaired text is handed to the repair again
RepairTwice ==
  /\ rPc = "once"
  /\ rTwice' = OutputRepair(rOnce)
  /\ rPc' = "twice"
  /\ UNCHANGED <<rText, rOnce, rLatex>>
  /\ UNCHANGED <<extractVars, clientVars, cacheVars, schedVars, reqVars>>

RepairNext == RepairOnce \/ RepairTwice

\* a model output is about to be repaired; nothing else is in progress
InitRepair ==
  /\ rText \in RepairInputs
  /\ rOnce = <<>> /\ rTwice = <<>> /\ rLatex = <<>> /\ rPc = "raw"
  /\ xDom = <<>> /\ xArgs = <<>> /\ xRaw = <<>> /\ xOut = <<>> /\ xPc = "off"
  /\ sKind = "none" /\ sPc = "off" /\ sStatus = 0 /\ sHasBody = FALSE
  /\ sLines = <<>> /\ sWire = <<>> /\ sBuffer = <<>> /\ sFull = <<>>
  /\ sDeltas = <<>> /\ sResult = <<>> /\ sError = "" /\ sRequests = 0
  /\ persisted = [d \in {} |-> {}] /\ sum = <<>> /\ now = 0 /\ doc = 0
  /\ activeUrl = "none" /\ switches = 0
  /\ stored = [fields |-> {}, value |-> DEFAULTS] /\ alarms = {}
  /\ cfg = <<>> /\ ticks = <<>> /\ stale = {}
  /\ reqs = <<>> /\ pick = <<>> /\ panel = <<>>

SpecRepair == InitRepair /\ [][RepairNext]_vars

\* C8: Output Repair (sentence completion, then environment completion) is
\* idempotent: repairing a repaired text returns it unchanged.
C8_RepairIdempotent == rPc = "twice" => rTwice = rOnce

\* a text that both passes changed has been repaired twice
C8_Witness ==
  /\ rPc = "twice"
  /\ ensureCompleteSentences(rText) # rText
  /\ rOnce # ensureCompleteSentences(rText)

\* C9 as stated: N >= 1 \begin{itemize}, no \end{itemize}: the repaired text
\* holds exactly N \end{itemize} markers, appended after the original text.
C9_RepairedHasNEnds ==
  (/\ rPc # "raw"
   /\ CountMatches(BeginMarker(Itemize), rText) >= 1
   /\ CountMatches(EndMarker(Itemize), rText) = 0)
  => /\ CountMatches(EndMarker(Itemize), rOnce)
          = CountMatches(BeginMarker(Itemize), rText)
     /\ Prefix(rOnce, Len(rText)) = rText

\* C9 amended: the structural pass alone appends exactly N markers after the
\* text it is given; the full repair closes exactly the \begin{itemize}
\* markers that survive sentence completion.
C9_EndsMatchSurvivingBegins ==
  (/\ rPc # "raw"
   /\ CountMatches(BeginMarker(Itemize), rText) >= 1
   /\ CountMatches(EndMarker(Itemize), rText) = 0)
  => LET n    == CountMatches(BeginMarker(Itemize), rText)
         cut  == ensureCompleteSentences(rText)
         m    == CountMatches(BeginMarker(Itemize), cut)
     IN  /\ CountMatches(EndMarker(Itemize), rLatex) = n
         /\ Prefix(rLatex, Len(rText)) = rText
         /\ SubSeq(rLatex, Len(rText) + 1, Len(rText) + 1 + n * Len(EndMarker(Itemize)))
              = <<"\n">> \o Repeat(EndMarker(Itemize), n)
         /\ CountMatches(EndMarker(Itemize), rOnce) = m
         /\ Prefix(rOnce, Len(cut)) = cut
         /\ m <= n

\* two unmatched \begin{itemize}, one of them cut off by sentence completion
C9_Witness ==
  /\ rPc # "raw"
  /\ CountMatches(BeginMarker(Itemize), rText) = 2
  /\ CountMatches(EndMarker(Itemize), rText) = 0
  /\ CountMatches(EndMarker(Itemize), rLatex) = 2
  /\ CountMatches(EndMarker(Itemize), rOnce) = 1

(***************************************************************************)
(* grabEditorText applied to bounded pages.                                *)
(***************************************************************************)
MaxLines == 22

ShortShapes == {[n |-> 1, lead |-> 0, cr |-> FALSE], [n |-> 1, lead |-> 1, cr |-> TRUE]}
WideShapes  == {[n |-> 80, lead |-> 0, cr |-> FALSE]}
LongShapes  ==
  { [n |-> n, lead |-> w, cr |-> w = 1] :
      n \in {MaxChars - 1, MaxChars, MaxChars + 1}, w \in {0, 1} }

\* short lines on any page, wide lines on the longest pages, and lines around
\* the character budget on pages of one or two lines
LineShapes(numLines) ==
  ShortShapes
    \cup (IF numLines >= MaxLines - 3 THEN WideShapes ELSE {})
    \cup (IF numLines \in 1..2 THEN LongShapes ELSE {})

\* what a probe that finds a selection returns
SelectionTexts ==
  { <<" ", "a", " ">> }
    \cup { <<" ">> \o [i \in 1..k |-> "a"] \o <<"\r", "\n", "b">> :
             k \in {MaxChars - 2, MaxChars - 1} }

\* probe selK is the first to find a selection (none when 0); the probes
\* before it find nothing, or only white space
Probes(selK, selText, wsBefore) ==
  [k \in 1..5 |-> IF k = selK THEN selText
                  ELSE IF k < selK /\ wsBefore THEN <<" ">> ELSE <<>>]

Surfaces ==
  { [surface |-> "cm", hasScroller |-> TRUE, aceApi |-> FALSE],
    [surface |-> "cm", hasScroller |-> FALSE, aceApi |-> FALSE],
    [surface |-> "ace", hasScroller |-> FALSE, aceApi |-> TRUE],
    [surface |-> "ace", hasScroller |-> FALSE, aceApi |-> FALSE],
    [surface |-> "editable", hasScroller |-> FALSE, aceApi |-> FALSE],
    [surface |-> "body", hasScroller |-> FALSE, aceApi |-> FALSE] }

Page(sf, numLines, shape, blankLo, blankHi, top, height, probes) ==
  [surface |-> sf.surface, hasScroller |-> sf.hasScroller, aceApi |-> sf.aceApi,
   numLines |-> numLines, shape |-> shape, blankLo |-> blankLo, blankHi |-> blankHi,
   top |-> top, height |-> height, probes |-> probes]

\* Selection scope (onAsk, part_003 164): every probe outcome, a small page
SelectionCalls ==
  { <<Page(sf, numLines, [n |-> 1, lead |-> 0, cr |-> FALSE], 1, 0, 0, 1,
           Probes(selK, selText, wsBefore)),
      [preferSelection |-> TRUE, mode |-> "all"]>> :
      sf \in {s \in Surfaces : s.surface = "cm" /\ s.hasScroller},
      numLines \in {0, 2}, selK \in 0..5, selText \in SelectionTexts,
      wsBefore \in BOOLEAN }

\* where the blank lines are: nowhere, the whole visible slice, everywhere
BlankRanges(numLines, top, height) ==
  { <<1, 0>>, <<Max(top, 1), top + height + 1 + VisiblePad>>, <<1, numLines>> }

\* Whole scope (grabText message, part_003 506-508): every surface
WholeCalls ==
  UNION {
    { <<Page(sf, numLines, shape, blank[1], blank[2], 0, 1, Probes(0, <<>>, FALSE)),
        [preferSelection |-> FALSE, mode |-> mode]>> :
        sf \in Surfaces, shape \in LineShapes(numLines),
        blank \in {<<1, 0>>, <<1, numLines>>}, mode \in {"all", "visible"} } :
      numLines \in 0..MaxLines }

\* Visible scope (grabText message with mode 'visible'; onAsk, part_003 171)
\* on the surfaces that have a viewport
VisibleCalls ==
  UNION { UNION { UNION {
    { <<Page(sf, numLines, shape, blank[1], blank[2], top, height,
             Probes(0, <<>>, FALSE)),
        [preferSelection |-> FALSE, mode |-> "visible"]>> :
        sf \in {f \in Surfaces : f.hasScroller \/ f.aceApi},
        shape \in LineShapes(numLines) } :
      blank \in BlankRanges(numLines, top, height) } :
      top \in {0, 2, numLines + 2}, height \in {1, 2} } :
      numLines \in 0..MaxLines }

\* a call of grabEditorText is about to run; nothing else is in progress
InitExtract ==
  /\ \E c \in SelectionCalls \cup WholeCalls \cup VisibleCalls :
        xDom = c[1] /\ xArgs = c[2]
  /\ xRaw = <<>> /\ xOut = <<>> /\ xPc = "call"
  /\ rText = <<>> /\ rOnce = <<>> /\ rTwice = <<>> /\ rLatex = <<>> /\ rPc = "off"
  /\ sKind = "none" /\ sPc = "off" /\ sStatus = 0 /\ sHasBody = FALSE
  /\ sLines = <<>> /\ sWire = <<>> /\ sBuffer = <<>> /\ sFull = <<>>
  /\ sDeltas = <<>> /\ sResult = <<>> /\ sError = "" /\ sRequests = 0
  /\ persisted = [d \in {} |-> {}] /\ sum = <<>> /\ now = 0 /\ doc = 0
  /\ activeUrl = "none" /\ switches = 0
  /\ stored = [fields |-> {}, value |-> DEFAULTS] /\ alarms = {}
  /\ cfg = <<>> /\ ticks = <<>> /\ stale = {}
  /\ reqs = <<>> /\ pick = <<>> /\ panel = <<>>

\* grabEditorText runs to completion
GrabEditorText ==
  /\ xPc = "call"
  /\ LET r == grabEditorText(xDom, xArgs.preferSelection, xArgs.mode)
     IN  /\ xRaw' = r.raw
         /\ xOut' = [selection |-> r.selection, text |-> r.text,
                     wasTruncated |-> r.wasTruncated]
  /\ xPc' = "done"
  /\ UNCHANGED <<xDom, xArgs>>
  /\ UNCHANGED <<repairVars, clientVars, cacheVars, schedVars, reqVars>>

\* grabEditorText of content.ts runs to completion (it has no mode)
ContentGrabEditorText ==
  /\ xPc = "call" /\ xArgs.mode = "all"
  /\ LET r == contentGrabEditorText(xDom, xArgs.preferSelection)
     IN  /\ xRaw' = r.raw
         /\ xOut' = [selection |-> r.selection, text |-> r.text]
  /\ xPc' = "doneContent"
  /\ UNCHANGED <<xDom, xArgs>>
  /\ UNCHANGED <<repairVars, clientVars, cacheVars, schedVars, reqVars>>

ExtractNext == GrabEditorText \/ ContentGrabEditorText

SpecExtract == InitExtract /\ [][ExtractNext]_vars

\* C10 as stated: the text gathered for the scope is longer than 1500
\* characters => wasTruncated and exactly 1500 characters, a prefix of the
\* gathered text; otherwise not truncated and returned in full.
C10_TruncatesGatheredText ==
  xPc = "done" =>
    IF Len(xRaw) > MaxChars
      THEN /\ xOut.wasTruncated
           /\ Len(xOut.text) = MaxChars
           /\ xOut.text = Prefix(xRaw, MaxChars)
      ELSE /\ ~xOut.wasTruncated
           /\ xOut.text = xRaw

\* C10 amended: the same, of the gathered text after its line ends are
\* normalised and its surrounding white space is removed.
C10_TruncatesCleanedText ==
  xPc = "done" =>
    LET clean == CleanUp(xRaw)
    IN  IF Len(clean) > MaxChars
          THEN /\ xOut.wasTruncated
               /\ Len(xOut.text) = MaxChars
               /\ xOut.text = Prefix(clean, MaxChars)
          ELSE /\ ~xOut.wasTruncated
               /\ xOut.text = clean

\* a Visible-scope call on a page whose cleaned text exceeds the budget
C10_Witness ==
  /\ xPc = "done"
  /\ xArgs.mode = "visible"
  /\ xDom.surface = "cm" /\ xDom.hasScroller
  /\ xOut.wasTruncated
  /\ Len(CleanUp(xRaw)) > MaxChars + 1

\* no selection probe of the page yields a selection
NoSelection == \A k \in DOMAIN xDom.probes : Trim(xDom.probes[k]) = <<>>

\* C11: a call for Selection scope on a page where no selection probe yields
\* a selection returns an empty selection and an empty text, whatever the
\* document contains (in either grabEditorText of the repository).
C11_NoSelectionNoText ==
  (xPc \in {"done", "doneContent"} /\ xArgs.preferSelection /\ NoSelection)
    => xOut.selection = <<>> /\ xOut.text = <<>>

\* the same of grabEditorText of part_003 alone
C11_NoSelectionNoTextPart003 ==
  (xPc = "done" /\ xArgs.preferSelection /\ NoSelection)
    => xOut.selection = <<>> /\ xOut.text = <<>>

(***************************************************************************)
(* One call of the Model Client against a bounded response.                *)
(***************************************************************************)
MaxWireLines == 3

\* the lines an endpoint may send, as characters
WireLines ==
  { <<"{", "mA", "}">>,                 \* a fragment
    <<" ", "{", "rC", "}", "\r">>,      \* a fragment in the `response` field
    <<"{", "mBb", "}">>,                \* a fragment of two characters
    <<"{", "m0", "}">>,                 \* an object with no text
    <<"{", "mA">>,                      \* a garbled (cut) object
    <<" ">> }                           \* a blank line

\* the lines joined by '\n'; the last one ends with '\n' when `terminated`
WireOf(lines, terminated) ==
  JoinLines(lines) \o (IF terminated /\ lines # <<>> THEN <<"\n">> ELSE <<>>)

\* the request is sent (fetch is called once)
Call(kind) ==
  /\ sPc = "idle"
  /\ sKind' = kind
  /\ sPc' = "fetching"
  /\ sRequests' = sRequests + 1
  /\ UNCHANGED <<sStatus, sHasBody, sLines, sWire, sBuffer, sFull, sDeltas,
                 sResult, sError>>
  /\ UNCHANGED <<repairVars, extractVars, cacheVars, schedVars, reqVars>>

\* fetch rejects: the endpoint cannot be reached
FetchFails ==
  /\ sPc = "fetching"
  /\ sPc' = "failed"
  /\ sError' = "network"
  /\ UNCHANGED <<sKind, sStatus, sHasBody, sLines, sWire, sBuffer, sFull,
                 sDeltas, sResult, sRequests>>
  /\ UNCHANGED <<repairVars, extractVars, cacheVars, schedVars, reqVars>>

\* ollamaChat: the response arrives (background.ts 548-550)
ChatResponds ==
  /\ sPc = "fetching" /\ sKind = "chat"
  /\ \E status \in {200, 404, 500}, body \in {"mA", "mBb", "m0", "rC", "garbled"} :
       /\ sStatus' = status
       /\ sHasBody' = TRUE
       /\ IF ~StatusOk(status)
            THEN sPc' = "failed" /\ sError' = "http" /\ sResult' = sResult
          ELSE IF body = "garbled"
            THEN sPc' = "failed" /\ sError' = "json" /\ sResult' = sResult
            ELSE sPc' = "resolved" /\ sError' = sError /\ sResult' = ChatContent(body)
  /\ UNCHANGED <<sKind, sLines, sWire, sBuffer, sFull, sDeltas, sRequests>>
  /\ UNCHANGED <<repairVars, extractVars, cacheVars, schedVars, reqVars>>

\* ollamaChatStream: the response head arrives (background.ts 590-594)
StreamResponds ==
  /\ sPc = "fetching" /\ sKind = "stream"
  /\ \E status \in {200, 404, 500}, hasBody \in BOOLEAN, terminated \in BOOLEAN,
        lines \in UNION {[1..n -> WireLines] : n \in 0..MaxWireLines} :
       /\ sStatus' = status
       /\ sHasBody' = hasBody
       /\ sLines' = lines
       /\ sWire' = IF hasBody THEN WireOf(lines, terminated) ELSE <<>>
       /\ IF StreamRejects(status, hasBody)
            THEN sPc' = "failed" /\ sError' = "http"
            ELSE sPc' = "reading" /\ sError' = sError
  /\ UNCHANGED <<sKind, sBuffer, sFull, sDeltas, sResult, sRequests>>
  /\ UNCHANGED <<repairVars, extractVars, cacheVars, schedVars, reqVars>>

\* reader.read() returns the next chunk, of any size (background.ts 596-614)
ReadChunk ==
  /\ sPc = "reading" /\ sWire # <<>>
  /\ \E n \in 1..Len(sWire) :
       LET st == DrainLines([buffer |-> sBuffer \o SubSeq(sWire, 1, n),
                             full |-> sFull, deltas |-> sDeltas])
       IN  /\ sWire' = SubSeq(sWire, n + 1, Len(sWire))
           /\ sBuffer' = st.buffer
           /\ sFull' = st.full
           /\ sDeltas' = st.deltas
  /\ UNCHANGED <<sKind, sPc, sStatus, sHasBody, sLines, sResult, sError, sRequests>>
  /\ UNCHANGED <<repairVars, extractVars, cacheVars, schedVars, reqVars>>

\* reader.read() returns done: the remainder is flushed and the call
\* resolves with full (background.ts 597, 616-627)
ReadDone ==
  /\ sPc = "reading" /\ sWire = <<>>
  /\ LET st == FlushRemainder([buffer |-> sBuffer, full |-> sFull, deltas |-> sDeltas])
     IN  /\ sFull' = st.full
         /\ sDeltas' = st.deltas
         /\ sResult' = st.full
  /\ sPc' = "resolved"
  /\ UNCHANGED <<sKind, sStatus, sHasBody, sLines, sWire, sBuffer, sError, sRequests>>
  /\ UNCHANGED <<repairVars, extractVars, cacheVars, schedVars, reqVars>>

\* reader.read() rejects: the connection is lost during the stream
ReadFails ==
  /\ sPc = "reading"
  /\ sPc' = "failed"
  /\ sError' = "read"
  /\ UNCHANGED <<sKind, sStatus, sHasBody, sLines, sWire, sBuffer, sFull,
                 sDeltas, sResult, sRequests>>
  /\ UNCHANGED <<repairVars, extractVars, cacheVars, schedVars, reqVars>>

\* no call has been made yet; nothing else is in progress
InitClient ==
  /\ sKind = "none" /\ sPc = "idle" /\ sStatus = 0 /\ sHasBody = FALSE
  /\ sLines = <<>> /\ sWire = <<>> /\ sBuffer = <<>> /\ sFull = <<>>
  /\ sDeltas = <<>> /\ sResult = <<>> /\ sError = "" /\ sRequests = 0
  /\ rText = <<>> /\ rOnce = <<>> /\ rTwice = <<>> /\ rLatex = <<>> /\ rPc = "off"
  /\ xDom = <<>> /\ xArgs = <<>> /\ xRaw = <<>> /\ xOut = <<>> /\ xPc = "off"
  /\ persisted = [d \in {} |-> {}] /\ sum = <<>> /\ now = 0 /\ doc = 0
  /\ activeUrl = "none" /\ switches = 0
  /\ stored = [fields |-> {}, value |-> DEFAULTS] /\ alarms = {}
  /\ cfg = <<>> /\ ticks = <<>> /\ stale = {}
  /\ reqs = <<>> /\ pick = <<>> /\ panel = <<>>

ClientNext ==
  \/ \E kind \in {"chat", "stream"} : Call(kind)
  \/ FetchFails
  \/ ChatResponds
  \/ StreamResponds
  \/ ReadChunk
  \/ ReadDone
  \/ ReadFails

SpecClient == InitClient /\ [][ClientNext]_vars

\* the deltas of the lines that parse, in the order the lines were sent;
\* a line that is blank, or that does not parse, contributes nothing
RECURSIVE ParsedFragments(_)
ParsedFragments(lines) ==
  IF lines = <<>> THEN <<>>
  ELSE LET p == ParseLine(Trim(Head(lines)))
       IN  (IF p.ok THEN <<p.delta>> ELSE <<>>) \o ParsedFragments(Tail(lines))

NonEmpty(d) == d # <<>>

IsPrefixOf(a, b) == Len(a) <= Len(b) /\ SubSeq(b, 1, Len(a)) = a

\* C5 as stated: one onDelta call for every successfully parsed fragment, in
\* arrival order, all before the call resolves with their concatenation.
C5_OneDeltaPerParsedFragment ==
  (sKind = "stream" /\ sPc = "resolved") =>
     /\ sDeltas = ParsedFragments(sLines)
     /\ sResult = Flatten(sDeltas)

\* C5 amended: one onDelta call for every successfully parsed fragment whose
\* text is not empty, in arrival order (at every moment the calls made are
\* an initial part of that sequence), all made by the time the call resolves,
\* and the call resolves with their concatenation.
C5_OneDeltaPerNonEmptyFragment ==
  sKind = "stream" =>
     /\ IsPrefixOf(sDeltas, SelectSeq(ParsedFragments(sLines), NonEmpty))
     /\ sFull = Flatten(sDeltas)
     /\ sPc = "resolved" =>
          /\ sDeltas = SelectSeq(ParsedFragments(sLines), NonEmpty)
          /\ sResult = Flatten(sDeltas)

\* two fragments were delivered in two calls, and a third parsed line, one
\* without text, was passed over
C5_Witness ==
  /\ sKind = "stream" /\ sPc = "resolved"
  /\ Len(sDeltas) = 2
  /\ Len(ParsedFragments(sLines)) = 3
  /\ sResult = <<"A", "B", "b">>

\* C6: a non-success status fails chat and chatStream with a transport
\* error and no onDelta call or result; so does a streaming response
\* without a body.
C6_TransportErrorDeliversNothing ==
  (/\ sPc \notin {"idle", "fetching"}
   /\ sError # "network"
   /\ \/ ~StatusOk(sStatus)
      \/ sKind = "stream" /\ ~sHasBody)
  => /\ sPc = "failed"
     /\ sError = "http"
     /\ sDeltas = <<>>
     /\ sFull = <<>>
     /\ sResult = <<>>

\* a streaming call failed on status 500 although fragments were on offer
C6_Witness ==
  /\ sKind = "stream" /\ sPc = "failed" /\ sStatus = 500 /\ sHasBody
  /\ SelectSeq(ParsedFragments(sLines), NonEmpty) # <<>>

\* C7: a line that is not valid JSON is skipped: the call does not fail on
\* it, and the text returned is the text of the well-formed lines before and
\* after it, in order.
C7_MalformedLinesSkipped ==
  sKind = "stream" =>
     /\ sPc = "failed" => sError \in {"network", "http", "read"}
     /\ sPc = "resolved" =>
          sResult = Flatten(SelectSeq(ParsedFragments(sLines), NonEmpty))

\* a garbled line between two well-formed ones, and the call resolved
C7_Witness ==
  /\ sKind = "stream" /\ sPc = "resolved"
  /\ Len(sLines) = 3
  /\ ParseLine(Trim(sLines[1])).ok
  /\ ~ParseLine(Trim(sLines[2])).ok /\ Trim(sLines[2]) # <<>>
  /\ ParseLine(Trim(sLines[3])).ok
  /\ Len(sDeltas) = 2

(***************************************************************************)
(* The Summary Cache under calls made one after the other.                 *)
(***************************************************************************)
MaxDoc == 13

\* the last call has found or stored the summary of the text in the editor
VersionConsidered ==
  \E i \in DOMAIN sum :
    sum[i].pc = "done" /\ sum[i].text.head = doc /\ (sum[i].hit \/ sum[i].wrote)

\* a coaching pass calls maybeUpdateSummary with the text it has read
ConsiderUpdate(i) ==
  /\ doc > 0
  /\ \A j \in DOMAIN sum : ~FlowBusy(j)
  /\ \E tail \in 0..1 : StartSummary(i, DocText(tail))
  /\ UNCHANGED <<persisted, now, doc, activeUrl, switches>>
  /\ UNCHANGED <<repairVars, extractVars, clientVars, schedVars, reqVars>>

\* the writer changes the text between two calls
EditBetweenCalls ==
  /\ \A j \in DOMAIN sum : ~FlowBusy(j)
  /\ doc = 0 \/ VersionConsidered
  /\ EditDoc(MaxDoc)

InitCache ==
  /\ persisted = [d \in {} |-> {}] /\ sum = <<IdleFlow>> /\ now = 0 /\ doc = 0
  /\ activeUrl \in {"none", "u1"} /\ switches = 0
  /\ stored = [fields |-> {}, value |-> DEFAULTS] /\ alarms = {}
  /\ cfg = <<>> /\ ticks = <<>> /\ stale = {}
  /\ reqs = <<>> /\ pick = <<>> /\ panel = <<>>
  /\ sKind = "none" /\ sPc = "off" /\ sStatus = 0 /\ sHasBody = FALSE
  /\ sLines = <<>> /\ sWire = <<>> /\ sBuffer = <<>> /\ sFull = <<>>
  /\ sDeltas = <<>> /\ sResult = <<>> /\ sError = "" /\ sRequests = 0
  /\ rText = <<>> /\ rOnce = <<>> /\ rTwice = <<>> /\ rLatex = <<>> /\ rPc = "off"
  /\ xDom = <<>> /\ xArgs = <<>> /\ xRaw = <<>> /\ xOut = <<>> /\ xPc = "off"

SummaryNext(i) ==
  \/ SummaryDocId(i)
  \/ SummaryLoad(i)
  \/ SummaryStore(i)
  \/ SummaryEmpty(i)
  \/ SummaryNotify(i)
  \/ SummaryRejects(i)

CacheNext ==
  \/ \E i \in DOMAIN sum : ConsiderUpdate(i)
  \/ \E i \in DOMAIN sum : SummaryNext(i)
  \/ EditBetweenCalls

SpecCache == InitCache /\ [][CacheNext]_vars

\* the entry of a table with the smallest updatedAt
Oldest(table) ==
  CHOOSE e \in table : \A o \in table : e.updatedAt <= o.updatedAt

\* a call stores a summary in this step
Stores(i) == sum[i].pc = "summarize" /\ sum'[i].pc = "saved"

\* C3: for every document the persisted table holds at most 12 entries; when
\* a call stores a summary in a table of 12 other entries, the table
\* afterwards is the old one without its entry of smallest updatedAt (and
\* that entry only) and with the new entry.
C3_AtMostTwelveOldestEvicted ==
  /\ [](\A d \in DOMAIN persisted : Cardinality(persisted[d]) <= 12)
  /\ [][\A i \in DOMAIN sum :
          (Stores(i) /\ Cardinality(LoadSummaries(persisted, sum[i].docId)) = 12
             /\ ~HasEntry(LoadSummaries(persisted, sum[i].docId), sum[i].key))
          => LET old == persisted[sum[i].docId]
                 new == persisted'[sum[i].docId]
             IN  /\ \A o \in old \ {Oldest(old)} : Oldest(old).updatedAt < o.updatedAt
                 /\ new \cap old = old \ {Oldest(old)}
                 /\ Cardinality(new \ old) = 1
                 /\ \A e \in new \ old : e.sectionKey = sum[i].key /\ e.updatedAt = now'
       ]_vars

\* a call has stored a thirteenth summary: the table holds 12 entries, the
\* new one among them, and the first one is gone
C3_Witness ==
  \E i \in DOMAIN sum :
    /\ sum[i].pc = "saved" /\ sum[i].docId = "u1" /\ sum[i].text.head = 13
    /\ Cardinality(persisted["u1"]) = 12
    /\ HasEntry(persisted["u1"], sum[i].key)
    /\ \A e \in persisted["u1"] : e.updatedAt > 1

\* the fingerprint of the first 800 characters of the text of a call is in
\* the persisted table of the document of the call
FingerprintPresent(i) ==
  \E e \in LoadSummaries(persisted, sum[i].docId) :
    e.sectionKey = simpleHash(Prefix(SampleText(sum[i].text), 800))

\* C4: a call whose text has, for its first 800 characters, a fingerprint
\* that the table of the document already holds when the call has loaded it
\* ends at once: it sends no model request, writes nothing, and the table
\* is unchanged.
C4_CachedTextIsNoOp ==
  [][\A i \in DOMAIN sum :
       (sum[i].pc = "load" /\ FingerprintPresent(i) /\ sum'[i] # sum[i])
       => /\ sum'[i].pc = "done" /\ (sum'[i].hit \/ sum'[i].failed)
          /\ ~sum'[i].requested /\ ~sum'[i].wrote
          /\ persisted' = persisted
    ]_vars

\* a call with a text longer than 800 characters found the fingerprint that
\* a shorter text left in the table, and ended without request or write
C4_Witness ==
  \E i \in DOMAIN sum :
    /\ sum[i].pc = "done" /\ sum[i].hit /\ sum[i].text.tail = 1
    /\ ~sum[i].requested /\ ~sum[i].wrote
    /\ HasEntry(LoadSummaries(persisted, sum[i].docId), sum[i].key)

(***************************************************************************)
(* The engine: settings requests one at a time, the scheduler, the alarm   *)
(* listener and the cache updates it starts.                                *)
(***************************************************************************)
Init ==
  /\ stored = [fields |-> {}, value |-> DEFAULTS] /\ alarms = {}
  /\ cfg = <<IdleHandler>> /\ ticks = <<IdleTick>> /\ stale = {}
  /\ reqs = <<>> /\ pick = <<>> /\ panel = <<>>
  /\ persisted = [d \in {} |-> {}] /\ sum = <<IdleFlow>> /\ now = 0
  /\ doc \in 0..1 /\ activeUrl \in {"none", "u1"} /\ switches = 0
  /\ sKind = "none" /\ sPc = "off" /\ sStatus = 0 /\ sHasBody = FALSE
  /\ sLines = <<>> /\ sWire = <<>> /\ sBuffer = <<>> /\ sFull = <<>>
  /\ sDeltas = <<>> /\ sResult = <<>> /\ sError = "" /\ sRequests = 0
  /\ rText = <<>> /\ rOnce = <<>> /\ rTwice = <<>> /\ rLatex = <<>> /\ rPc = "off"
  /\ xDom = <<>> /\ xArgs = <<>> /\ xRaw = <<>> /\ xOut = <<>> /\ xPc = "off"

ConfigurationNext(h) ==
  \/ \E patch \in ViewPatches : SettingsSet(h, patch, TRUE)
  \/ OnInstalled(h, TRUE)
  \/ OnStartup(h, TRUE)
  \/ SetRead(h)
  \/ SetWrite(h)
  \/ EnsureRead(h)
  \/ EnsureClear(h)
  \/ EnsureCreate(h)

TickNext(t) ==
  \/ TickFire(t)
  \/ TickSettings(t)
  \/ TickTab(t)
  \/ TickScan(t)
  \/ TickVisible(t)
  \/ TickWhole(t)
  \/ TickSpawn(t)
  \/ TickAsk(t)
  \/ TickChatFails(t)
  \/ TickChatReturns(t)
  \/ TickDelivered(t)
  \/ TickDeliveryFails(t)
  \/ TickCatch(t)

Next ==
  \/ \E h \in DOMAIN cfg : ConfigurationNext(h)
  \/ \E t \in DOMAIN ticks : TickNext(t)
  \/ \E i \in DOMAIN sum : SummaryNext(i)

Spec == Init /\ [][Next]_vars

Armed == \E a \in alarms : a.name = AlarmName

\* C1: whenever no settings request is in progress (they run one at a time),
\* the 'writetank:tick' alarm exists exactly when the stored configuration
\* has paused = false and intervalMin > 0, with the stored period; there is
\* never more than one alarm; while the configuration is paused no invocation
\* of the listener that began after the last request ended asks for text or
\* calls the model; and an ensureAlarm applied after another leaves the
\* alarms as the first one left them.
C1_ArmedIffConfigured ==
  /\ Cardinality(alarms) <= 1
  /\ ConfigurationIdle =>
       LET settings == getSettings(stored)
       IN  /\ Armed <=> (~settings.paused /\ ~settings.intervalMin.nan
                           /\ settings.intervalMin.n > 0)
           /\ \A a \in alarms : a.periodInMinutes = settings.intervalMin
           /\ settings.paused =>
                \A t \in DOMAIN ticks : t \notin stale => ~TickWorking(t)
  /\ \A h \in DOMAIN cfg :
       /\ cfg[h].pc = "done" /\ cfg[h].runs = 2 => alarms = cfg[h].afterRun
       /\ cfg[h].pc = "done" /\ cfg[h].kind = "startup" => alarms = cfg[h].before

\* the scheduler was armed with paused = false and intervalMin = 5; a
\* set({paused: true}) has completed and the alarm is gone
C1_Witness ==
  \E h \in DOMAIN cfg :
    /\ cfg[h].pc = "done" /\ cfg[h].kind = "set"
    /\ cfg[h].before = {[name |-> AlarmName, periodInMinutes |-> Num(5)]}
    /\ getSettings(stored).paused
    /\ alarms = {}

\* an invocation of the listener whose model call or delivery failed
TickFailed(t) == ticks[t].failure # "none"

\* C2: when the model call of a tick fails (the request or the delivery of
\* its result), the listener sends a status that begins with '(error)' and
\* ends without letting the failure out; no step of the listener changes
\* the alarms or the stored configuration.
C2_TickFailureCaught ==
  /\ [](\A t \in DOMAIN ticks :
          TickFailed(t) =>
            /\ ~ticks[t].escaped
            /\ ticks[t].pc \in {"catch", "done"}
            /\ ticks[t].pc = "catch" =>
                 /\ ticks[t].sent[Len(ticks[t].sent)] = "(error) Model unavailable"
                 /\ ticks[t].requests = 1)
  /\ [][ticks' # ticks => alarms' = alarms /\ stored' = stored]_vars

\* the listener has ended after the delivery of its result failed; the
\* alarm that fired it is still there
C2_Witness ==
  \E t \in DOMAIN ticks :
    /\ ticks[t].pc = "done" /\ ticks[t].failure = "delivery" /\ ~ticks[t].escaped
    /\ Armed /\ ~getSettings(stored).paused

\* the position of the first occurrence of an event in a log; 0 when absent
Index(log, e) ==
  IF \E k \in DOMAIN log : log[k] = e
    THEN CHOOSE k \in DOMAIN log : log[k] = e /\ \A j \in 1..(k - 1) : log[j] # e
    ELSE 0

Has(log, e) == Index(log, e) > 0

\* event a is in the log, and before event b when b is there too
Before(log, a, b) == Has(log, a) /\ (Has(log, b) => Index(log, a) < Index(log, b))

\* C12: a tick that has found a document asks for the visible text first and
\* for the whole text only after the visible request gave none; when both
\* give none it ends having started no cache update, sent no model request
\* and delivered no answer; otherwise the cache update is started before
\* the model request, the answer sent is the repair of the model output, and
\* it is sent after the model request.
C12_TickOrder ==
  \A t \in DOMAIN ticks :
    LET log == ticks[t].sent
    IN  /\ Len(log) >= 2 => log[1] = "Scanning" /\ log[2] = "grabText:visible"
        /\ Has(log, "grabText") =>
             /\ Before(log, "visible:none", "grabText")
             /\ ~Has(log, "visible:text")
        /\ Has(log, "whole:none") =>
             /\ ticks[t].pc = "done"
             /\ ~Has(log, "maybeUpdateSummary") /\ ~Has(log, "ollamaChat")
             /\ ~Has(log, "coach:answer")
        /\ Has(log, "maybeUpdateSummary") =>
             Has(log, "visible:text") \/ Has(log, "whole:text")
        /\ Has(log, "ollamaChat") => Before(log, "maybeUpdateSummary", "ollamaChat")
        /\ Has(log, "coach:answer") => Before(log, "ollamaChat", "coach:answer")
        /\ ticks[t].pc = "deliver" =>
             /\ Has(log, "coach:answer")
             /\ ticks[t].final =
                  ensureLatexCompleteness(ensureCompleteSentences(SafeOut(ticks[t].out)))
        /\ (ticks[t].pc = "done" /\ ticks[t].failure = "none"
              /\ (Has(log, "visible:text") \/ Has(log, "whole:text")))
             => Has(log, "coach:answer")

\* a tick got no visible text, read the whole text and delivered its answer
C12_Witness ==
  \E t \in DOMAIN ticks :
    /\ ticks[t].pc = "done" /\ ticks[t].failure = "none"
    /\ ticks[t].sent = <<"Scanning", "grabText:visible", "visible:none", "grabText",
                         "whole:text", "Read", "maybeUpdateSummary", "Thinking",
                         "ollamaChat", "coach:answer">>

(***************************************************************************)
(* The message listener, the alarm listener and the summary cache, with    *)
(* the settings saved unpaused and the alarm armed.                        *)
(***************************************************************************)
\* a summary an earlier pass cached for another version of the text
EarlierSummary ==
  [sectionKey |-> SectionKeyOf([head |-> 2, tail |-> 0]),
   text |-> <<"a", "b", "c">>, updatedAt |-> 1]

InitRequests ==
  /\ stored = [fields |-> SettingsKeys, value |-> [DEFAULTS EXCEPT !.paused = FALSE]]
  /\ alarms = {[name |-> AlarmName, periodInMinutes |-> DEFAULTS.intervalMin]}
  /\ cfg = <<>> /\ ticks = <<IdleTick>> /\ stale = {}
  /\ reqs = <<IdleRequest>> /\ pick = <<>> /\ panel = <<>>
  /\ persisted \in {[d \in {} |-> {}], [d \in {"u1"} |-> {EarlierSummary}]}
  /\ sum = <<IdleFlow>> /\ now = 1
  /\ doc \in 0..1 /\ activeUrl \in {"none", "u1"} /\ switches = 0
  /\ sKind = "none" /\ sPc = "off" /\ sStatus = 0 /\ sHasBody = FALSE
  /\ sLines = <<>> /\ sWire = <<>> /\ sBuffer = <<>> /\ sFull = <<>>
  /\ sDeltas = <<>> /\ sResult = <<>> /\ sError = "" /\ sRequests = 0
  /\ rText = <<>> /\ rOnce = <<>> /\ rTwice = <<>> /\ rLatex = <<>> /\ rPc = "off"
  /\ xDom = <<>> /\ xArgs = <<>> /\ xRaw = <<>> /\ xOut = <<>> /\ xPc = "off"

RequestsNext ==
  \/ \E r \in DOMAIN reqs : ReqNext(r)
  \/ \E t \in DOMAIN ticks : TickNext(t)
  \/ \E i \in DOMAIN sum : SummaryNext(i)

SpecRequests == InitRequests /\ [][RequestsNext]_vars

\* the failures that are the summary cache's, not the request's own
CacheFailures == {"none", "lookup"}

\* C13: no failure of the summary cache changes what a primary request
\* does: a Q&A request whose own steps succeed responds ok = true even when
\* the summary lookup failed, a run-now pass whose model call and delivery
\* succeed responds ok = true and a tick whose model call succeeds delivers
\* its answer whatever became of the cache update they started, and after
\* starting the update both can go on to their model request at once.
C13_CacheFailureHarmless ==
  /\ \A r \in DOMAIN reqs :
       /\ (reqs[r].pc = "done" /\ reqs[r].kind = "qa"
             /\ reqs[r].failure \in CacheFailures)
            => reqs[r].ok = "true" /\ reqs[r].text = reqs[r].final
       /\ (reqs[r].pc = "done" /\ reqs[r].kind = "run-now"
             /\ reqs[r].failure \in CacheFailures
             /\ Has(reqs[r].sent, "maybeUpdateSummary"))
            => reqs[r].ok = "true" /\ Has(reqs[r].sent, "coach:answer")
       /\ reqs[r].pc = "spawn" => ENABLED RunAsk(r)
  /\ \A t \in DOMAIN ticks :
       /\ (ticks[t].pc = "done" /\ ticks[t].failure = "none"
             /\ Has(ticks[t].sent, "maybeUpdateSummary"))
            => Has(ticks[t].sent, "coach:answer")
       /\ ticks[t].pc = "spawn" => ENABLED TickAsk(t)

\* a run-now pass has responded ok = true after the cache update it started
\* failed (no tick has run, so the update is the one this pass started)
C13_Witness ==
  /\ ticks[1].pc = "idle"
  /\ reqs[1].pc = "done" /\ reqs[1].kind = "run-now" /\ reqs[1].ok = "true"
  /\ sum[1].pc = "done" /\ sum[1].failed

(***************************************************************************)
(* pickBestSummary applied to bounded tables and texts.                    *)
(***************************************************************************)
MaxPickKeys == 2
MaxPickTime == 2

\* the digests of the entries tried
PickDigests ==
  { <<"a", "b">>, <<"a", "b", "c">>, <<"a", "b", "c", " ", "x", "y", "z">> }

\* the texts provided with a question
PickProvided ==
  ProvidedTexts \cup { <<"x", "y", "z", " ", "A", "B", "C">> }

\* the tables tried: for each key no entry, or one with a digest and a time
PickTables ==
  LET keys    == {<<0, k>> : k \in 1..MaxPickKeys}
      entries == [sectionKey : keys, text : PickDigests, updatedAt : 1..MaxPickTime]
  IN  {t \in SUBSET entries :
         \A a, b \in t : a.sectionKey = b.sectionKey => a = b}

\* pickBestSummary(provided, summaries) is called and returns
PickBestSummary ==
  /\ pick.pc = "call"
  /\ pick' = [pick EXCEPT !.pc = "done",
                          !.best = pickBestSummary(pick.provided, pick.summaries)]
  /\ UNCHANGED <<reqs, panel>>
  /\ UNCHANGED <<repairVars, extractVars, clientVars, cacheVars, schedVars>>

InitPick ==
  /\ pick \in [pc : {"call"}, provided : PickProvided, summaries : PickTables,
               best : {<<>>}]
  /\ reqs = <<>> /\ panel = <<>>
  /\ stored = [fields |-> {}, value |-> DEFAULTS] /\ alarms = {}
  /\ cfg = <<>> /\ ticks = <<>> /\ stale = {}
  /\ persisted = [d \in {} |-> {}] /\ sum = <<>> /\ now = 0 /\ doc = 0
  /\ activeUrl = "none" /\ switches = 0
  /\ sKind = "none" /\ sPc = "off" /\ sStatus = 0 /\ sHasBody = FALSE
  /\ sLines = <<>> /\ sWire = <<>> /\ sBuffer = <<>> /\ sFull = <<>>
  /\ sDeltas = <<>> /\ sResult = <<>> /\ sError = "" /\ sRequests = 0
  /\ rText = <<>> /\ rOnce = <<>> /\ rTwice = <<>> /\ rLatex = <<>> /\ rPc = "off"
  /\ xDom = <<>> /\ xArgs = <<>> /\ xRaw = <<>> /\ xOut = <<>> /\ xPc = "off"

SpecPick == InitPick /\ [][PickBestSummary]_vars

\* the entry returned is in the table and no entry shares more tokens with
\* the text provided
MostOverlap ==
  LET sel == tokenize(pick.provided)
  IN  /\ pick.best[1] \in pick.summaries
      /\ \A e \in pick.summaries :
           Score(sel, e.text) <= Score(sel, pick.best[1].text)

\* C14: pickBestSummary returns nothing exactly when the table is empty;
\* when the text provided has no token it returns an entry with the
\* greatest updatedAt; otherwise it returns an entry that shares the most
\* tokens with the text, and no entry sharing as many is newer.
C14_BestSummary ==
  pick.pc = "done" =>
    LET sel == tokenize(pick.provided)
    IN  /\ pick.best = <<>> <=> pick.summaries = {}
        /\ (pick.summaries # {} /\ sel = {}) =>
             /\ pick.best[1] \in pick.summaries
             /\ \A e \in pick.summaries : e.updatedAt <= pick.best[1].updatedAt
        /\ (pick.summaries # {} /\ sel # {}) =>
             /\ MostOverlap
             /\ \A e \in pick.summaries :
                  Score(sel, e.text) = Score(sel, pick.best[1].text)
                    => e.updatedAt <= pick.best[1].updatedAt

\* what the loop does: the entry returned shares the most tokens, and of
\* the entries sharing as many it is the one with the least key
C14_FirstOfTheBest ==
  (pick.pc = "done" /\ pick.summaries # {} /\ tokenize(pick.provided) # {}) =>
    /\ MostOverlap
    /\ \A e \in pick.summaries :
         Score(tokenize(pick.provided), e.text)
             = Score(tokenize(pick.provided), pick.best[1].text)
           => e = pick.best[1] \/ KeyLess(pick.best[1].sectionKey, e.sectionKey)

(***************************************************************************)
(* Two maybeUpdateSummary calls in progress at once, as when a tick and a  *)
(* run-now pass read the same document.                                    *)
(***************************************************************************)
\* a coaching pass calls maybeUpdateSummary with the text it has read, while
\* another call may be in progress
ConcurrentUpdate(i) ==
  /\ \E tail \in 0..1 : StartSummary(i, DocText(tail))
  /\ UNCHANGED <<persisted, now, doc, activeUrl, switches>>
  /\ UNCHANGED <<repairVars, extractVars, clientVars, schedVars, reqVars>>

InitRace ==
  /\ persisted = [d \in {} |-> {}] /\ sum = <<IdleFlow, IdleFlow>> /\ now = 0
  /\ doc = 1 /\ activeUrl \in {"none", "u1"} /\ switches = 0
  /\ stored = [fields |-> {}, value |-> DEFAULTS] /\ alarms = {}
  /\ cfg = <<>> /\ ticks = <<>> /\ stale = {}
  /\ reqs = <<>> /\ pick = <<>> /\ panel = <<>>
  /\ sKind = "none" /\ sPc = "off" /\ sStatus = 0 /\ sHasBody = FALSE
  /\ sLines = <<>> /\ sWire = <<>> /\ sBuffer = <<>> /\ sFull = <<>>
  /\ sDeltas = <<>> /\ sResult = <<>> /\ sError = "" /\ sRequests = 0
  /\ rText = <<>> /\ rOnce = <<>> /\ rTwice = <<>> /\ rLatex = <<>> /\ rPc = "off"
  /\ xDom = <<>> /\ xArgs = <<>> /\ xRaw = <<>> /\ xOut = <<>> /\ xPc = "off"

RaceNext ==
  \/ \E i \in DOMAIN sum : ConcurrentUpdate(i)
  \/ \E i \in DOMAIN sum : SummaryNext(i)

SpecRace == InitRace /\ [][RaceNext]_vars

\* C15: of two maybeUpdateSummary calls in progress together for texts
\* with the same fingerprint in the same document, at most one writes the
\* table.
C15_OneWritePerFingerprint ==
  \A i, j \in DOMAIN sum :
    (i # j /\ sum[i].wrote /\ sum[j].wrote /\ sum[i].docId = sum[j].docId)
      => sum[i].key # sum[j].key

\* C16: an entry that is persisted stays as it is, text and updatedAt, for
\* as long as the table of its document holds an entry with its key.
C16_WriteOnce ==
  [][\A d \in DOMAIN persisted : \A e \in persisted[d] :
       (\E o \in persisted'[d] : o.sectionKey = e.sectionKey)
         => e \in persisted'[d]]_vars

\* sentence completion and then environment completion, applied to the
\* model output or to the text that stands for an empty output
BothPasses(out) ==
  { ensureLatexCompleteness(ensureCompleteSentences(out)),
    ensureLatexCompleteness(ensureCompleteSentences(SafeOut(out))) }

\* C17: every final answer (the text of a qa, coach or coach:expand
\* response, the coach:answer of a run-now pass and of a tick) is the model
\* output after sentence completion and then environment completion.
C17_EveryAnswerRepaired ==
  /\ \A r \in DOMAIN reqs :
       /\ (reqs[r].pc = "done" /\ reqs[r].ok = "true" /\ reqs[r].kind # "run-now")
            => reqs[r].text \in BothPasses(reqs[r].out)
       /\ (reqs[r].kind = "run-now" /\ Has(reqs[r].sent, "coach:answer"))
            => reqs[r].final \in BothPasses(reqs[r].out)
  /\ \A t \in DOMAIN ticks :
       ticks[t].pc = "deliver" => ticks[t].final \in BothPasses(ticks[t].out)

\* the same of every answer but the Q&A answer
C17_CoachAnswersRepaired ==
  /\ \A r \in DOMAIN reqs :
       /\ (reqs[r].pc = "done" /\ reqs[r].ok = "true"
             /\ reqs[r].kind \in {"coach", "coach:expand"})
            => reqs[r].text \in BothPasses(reqs[r].out)
       /\ (reqs[r].kind = "run-now" /\ Has(reqs[r].sent, "coach:answer"))
            => reqs[r].final \in BothPasses(reqs[r].out)
  /\ \A t \in DOMAIN ticks :
       ticks[t].pc = "deliver" => ticks[t].final \in BothPasses(ticks[t].out)

\* the \begin{name} and \end{name} markers of environment k in a text
Opens(k, text) == CountMatches(BeginMarker(Environments[k]), text)
Closes(k, text) == CountMatches(EndMarker(Environments[k]), text)

\* C18: a repaired text has, for each of the seven environments, at least
\* as many \end markers as \begin markers, and as many when the text given
\* to the structural pass had more \begin than \end markers; the same holds
\* of the structural pass applied alone.
C18_RepairedIsBalanced ==
  rPc = "once" =>
    LET cut == ensureCompleteSentences(rText)
    IN  \A k \in DOMAIN Environments :
          /\ Closes(k, rOnce) >= Opens(k, rOnce)
          /\ Opens(k, cut) > Closes(k, cut) => Closes(k, rOnce) = Opens(k, rOnce)
          /\ Closes(k, rLatex) >= Opens(k, rLatex)
          /\ Opens(k, rText) > Closes(k, rText) => Closes(k, rLatex) = Opens(k, rLatex)

\* a text with two \begin{itemize}, one \end{itemize} and an open table
\* has been repaired: one marker was appended for each environment
C18_Witness ==
  /\ rPc # "raw"
  /\ Opens(1, rText) = 2 /\ Closes(1, rText) = 1 /\ Opens(7, rText) = 1
  /\ ensureCompleteSentences(rText) = rText
  /\ Closes(1, rOnce) = 2 /\ Closes(7, rOnce) = 1
  /\ Len(rOnce) > Len(rText)

\* the defaults as the claim gives them
ClaimedDefaults ==
  [endpoint |-> "http://localhost:11434", model |-> "gpt-oss:20b",
   intervalMin |-> [nan |-> FALSE, n |-> 5], paused |-> TRUE]

\* what get() is to return for a store: each field as stored, else its default
ClaimedSettings(store) ==
  [k \in SettingsKeys |->
     IF k \in store.fields THEN store.value[k] ELSE ClaimedDefaults[k]]

\* C19: when setSettings writes, every field named in the patch takes the
\* patch's value and every other field keeps the value it had, so an empty
\* patch changes no setting; getSettings returns each field as stored, or
\* its default (endpoint 'http://localhost:11434', model 'gpt-oss:20b',
\* intervalMin 5, paused true) when it is not stored; with nothing stored,
\* and after the install handler has run on the defaults, the settings are
\* paused and there is no alarm.
C19_SetMergesGetDefaults ==
  /\ [](/\ getSettings(stored) = ClaimedSettings(stored)
        /\ stored.fields = {} => getSettings(stored).paused /\ alarms = {}
        /\ \A h \in DOMAIN cfg :
             (cfg[h].kind = "installed" /\ cfg[h].pc = "done"
                /\ ClaimedSettings(stored) = ClaimedDefaults)
               => alarms = {})
  /\ [][\A h \in DOMAIN cfg :
          /\ (cfg[h].pc = "get" /\ cfg'[h].pc = "set")
               => cfg'[h].prev = ClaimedSettings(stored)
          /\ (cfg[h].pc = "set" /\ cfg'[h].pc = "eaGet")
               => /\ \A k \in SettingsKeys :
                       ClaimedSettings(stored')[k] =
                         IF k \in cfg[h].patch.fields THEN cfg[h].patch.value[k]
                         ELSE ClaimedSettings(stored)[k]
                  /\ cfg[h].patch.fields = {}
                       => ClaimedSettings(stored') = ClaimedSettings(stored)]_vars

\* the interval was saved as 60 and a later patch of paused alone has been
\* written: the interval is still 60
C19_Witness ==
  /\ \E h \in DOMAIN cfg : cfg[h].kind = "set" /\ cfg[h].pc = "eaGet"
  /\ stored.fields = SettingsKeys
  /\ stored.value.intervalMin = [nan |-> FALSE, n |-> 60]
  /\ ~stored.value.paused
  /\ alarms = {}

\* how many model requests a log of events holds
ModelRequests(log) ==
  Cardinality({k \in DOMAIN log : log[k] \in {"ollamaChat", "ollamaChatStream"}})

\* C20: a qa, coach, coach:expand or run-now request and a tick send at
\* most one primary model request, and exactly one when the model call is
\* what failed: nothing is tried again.
C20_NoRetry ==
  /\ \A r \in DOMAIN reqs :
       /\ ModelRequests(reqs[r].sent) <= 1
       /\ reqs[r].requests = ModelRequests(reqs[r].sent)
       /\ reqs[r].failure \in ChatFailures => ModelRequests(reqs[r].sent) = 1
  /\ \A t \in DOMAIN ticks :
       /\ ModelRequests(ticks[t].sent) <= 1
       /\ ticks[t].failure \in ChatFailures => ModelRequests(ticks[t].sent) = 1

\* a run-now pass whose model call failed has responded ok = false after
\* one request
C20_Witness ==
  \E r \in DOMAIN reqs :
    /\ reqs[r].pc = "done" /\ reqs[r].kind = "run-now" /\ reqs[r].ok = "false"
    /\ reqs[r].failure \in ChatFailures
    /\ ModelRequests(reqs[r].sent) = 1

\* one call of ollamaChat or ollamaChatStream sends one HTTP request,
\* however it ends
C20_OneFetchPerCall ==
  /\ sPc = "idle" => sRequests = 0
  /\ sPc \notin {"idle", "off"} => sRequests = 1

\* C21: every qa, coach, coach:expand and run-now request that has ended
\* was answered, once: ok = true after its one model request succeeded and
\* nothing of its own failed, else ok = false with an error message; no
\* request is answered before it ends.
C21_ExactlyOneResponse ==
  \A r \in DOMAIN reqs :
    /\ ReqBusy(r) => reqs[r].ok = "none"
    /\ reqs[r].pc = "done" =>
         /\ reqs[r].ok \in {"true", "false"}
         /\ reqs[r].ok = "true" =>
              /\ reqs[r].failure \in CacheFailures /\ reqs[r].error = "none"
              /\ ModelRequests(reqs[r].sent) = 1
         /\ reqs[r].ok = "false" => reqs[r].error # "none"

\* the same of every request but a run-now request whose first tab query
\* rejected
C21_AnsweredUnlessTabQueryRejects ==
  \A r \in DOMAIN reqs :
    /\ ReqBusy(r) => reqs[r].ok = "none"
    /\ (reqs[r].pc = "done"
          /\ ~(reqs[r].kind = "run-now" /\ reqs[r].failure = "tabs"
                 /\ reqs[r].sent = <<>>)) =>
         /\ reqs[r].ok \in {"true", "false"}
         /\ reqs[r].ok = "true" =>
              /\ reqs[r].failure \in CacheFailures /\ reqs[r].error = "none"
              /\ ModelRequests(reqs[r].sent) = 1
         /\ reqs[r].ok = "false" => reqs[r].error # "none"

(***************************************************************************)
(* The panel of the content script (onAsk, runCoachNow) and the engine's   *)
(* qa and run-now handlers, with the stream read delta by delta.           *)
(***************************************************************************)
\* the deltas of a model response, in the order they are parsed; the stream
\* may end, or fail, after any of them
StreamScript == << <<"a", ".">>, <<"b">> >>

MutQaDelta(r) ==
  /\ reqs[r].kind = "qa" /\ reqs[r].pc = "stream"
  /\ Len(reqs[r].deltas) < Len(StreamScript)
  /\ LET delta == StreamScript[Len(reqs[r].deltas) + 1]
     IN
       reqs' = [reqs EXCEPT
                  ![r].deltas = Append(reqs[r].deltas, delta),
                  ![OutputOf(r)].out = reqs[OutputOf(r)].out \o delta,
                  ![r].pushed = IF reqs[r].tab # "none"
                                  THEN <<delta>> \o reqs[r].pushed
                                  ELSE reqs[r].pushed,
                  ![r].sent = IF reqs[r].tab # "none"
                                THEN Append(reqs[r].sent, "qa:answer:delta")
                                ELSE reqs[r].sent]
  /\ UNCHANGED <<pick, panel>>
  /\ UNCHANGED <<repairVars, extractVars, clientVars, cacheVars, schedVars>>

\* qa: onDelta: streamedOutput += delta, and the delta goes to the tab when
\* there is one
QaDelta(r) ==
  /\ reqs[r].kind = "qa" /\ reqs[r].pc = "stream"
  /\ Len(reqs[r].deltas) < Len(StreamScript)
  /\ LET delta == StreamScript[Len(reqs[r].deltas) + 1]
     IN
       reqs' = [reqs EXCEPT
                  ![r].deltas = Append(reqs[r].deltas, delta),
                  ![OutputOf(r)].out = reqs[OutputOf(r)].out \o delta,
                  ![r].pushed = IF reqs[r].tab # "none"
                                  THEN Append(reqs[r].pushed, delta)
                                  ELSE reqs[r].pushed,
                  ![r].sent = IF reqs[r].tab # "none"
                                THEN Append(reqs[r].sent, "qa:answer:delta")
                                ELSE reqs[r].sent]
  /\ UNCHANGED <<pick, panel>>
  /\ UNCHANGED <<repairVars, extractVars, clientVars, cacheVars, schedVars>>

\* qa: the stream ends: the accumulated text is completed and sent as the
\* response
QaStreamEnds(r) ==
  /\ reqs[r].kind = "qa" /\ reqs[r].pc = "stream"
  /\ LET final == QaFinal(reqs[OutputOf(r)].out)
     IN  reqs' = [Responds(r, final) EXCEPT ![r].final = final]
  /\ UNCHANGED <<pick, panel>>
  /\ UNCHANGED <<repairVars, extractVars, clientVars, cacheVars, schedVars>>

\* run-now: onDelta: streamedOutput += delta, and the delta goes to the tab
RunDelta(r) ==
  /\ reqs[r].kind = "run-now" /\ reqs[r].pc = "stream"
  /\ Len(reqs[r].deltas) < Len(StreamScript)
  /\ LET delta == StreamScript[Len(reqs[r].deltas) + 1]
     IN
       reqs' = [reqs EXCEPT
                  ![r].deltas = Append(reqs[r].deltas, delta),
                  ![OutputOf(r)].out = reqs[OutputOf(r)].out \o delta,
                  ![r].pushed = Append(reqs[r].pushed, delta),
                  ![r].sent = Append(reqs[r].sent, "coach:answer:delta")]
  /\ UNCHANGED <<pick, panel>>
  /\ UNCHANGED <<repairVars, extractVars, clientVars, cacheVars, schedVars>>

\* run-now: the stream ends: the accumulated text is repaired and sent to
\* the tab as 'coach:answer'
RunStreamEnds(r) ==
  /\ reqs[r].kind = "run-now" /\ reqs[r].pc = "stream"
  /\ reqs' = [reqs EXCEPT ![r].pc = "deliver",
                          ![r].final = CoachFinal(reqs[OutputOf(r)].out),
                          ![r].sent = Append(reqs[r].sent, "coach:answer")]
  /\ UNCHANGED <<pick, panel>>
  /\ UNCHANGED <<repairVars, extractVars, clientVars, cacheVars, schedVars>>

\* the panel: no request awaited, nothing shown; the qa message is request 1
\* and the run-now message request 2
IdlePanel ==
  [ask |-> "idle", qa |-> "", run |-> "idle", time |-> <<"", "">>]

\* the pages onAsk reads: no selection, a selection found by the third
\* probe, and a selection of white space only
AskPages ==
  { Page([surface |-> "cm", hasScroller |-> TRUE, aceApi |-> FALSE],
         2, [n |-> 3, lead |-> 0, cr |-> FALSE], 1, 0, 0, 1, probes) :
      probes \in { Probes(0, <<>>, FALSE), Probes(3, <<" ", "a", " ">>, TRUE),
                   Probes(1, <<" ">>, FALSE) } }

\* what is typed in the question box
Questions == { <<" ">>, <<"q", "?">> }

\* the sample onAsk sends: the selection, the visible text or nothing
AskSample(dom, useSel, useVisible) ==
  IF useSel THEN grabEditorText(dom, TRUE, "all")
  ELSE IF useVisible THEN grabEditorText(dom, FALSE, "visible")
  ELSE [selection |-> <<>>, text |-> <<>>, wasTruncated |-> FALSE, raw |-> <<>>]

\* Ask is clicked: without a question, or in selection mode without a
\* selection, the panel says so and nothing is sent; else 'Thinking...' is
\* shown and the qa message is sent with the text of the sample
OnAsk ==
  /\ panel.ask = "idle"
  /\ \E question \in Questions, useSel \in BOOLEAN, useVisible \in BOOLEAN,
        dom \in AskPages :
       LET sample == AskSample(dom, useSel, useVisible)
       IN  IF Trim(question) = <<>>
             THEN /\ panel' = [panel EXCEPT !.qa = "(enter a question)"]
                  /\ UNCHANGED reqs
           ELSE IF useSel /\ sample.selection = <<>>
             THEN /\ panel' = [panel EXCEPT !.qa = "(no selection)"]
                  /\ UNCHANGED reqs
           ELSE /\ panel' = [panel EXCEPT !.qa = "Thinking", !.ask = "waiting"]
                /\ reqs' = [reqs EXCEPT ![1] =
                     [IdleRequest EXCEPT !.kind = "qa", !.pc = "docId",
                                         !.provided = sample.text,
                                         !.context = trimChars(sample.text)]]
  /\ UNCHANGED pick
  /\ UNCHANGED <<repairVars, extractVars, clientVars, cacheVars, schedVars>>

\* the response to the qa message arrives (none when the handler ended
\* without one): the answer, '(no answer)' or the error is shown, and the
\* invocation is over
OnAskAnswered ==
  /\ panel.ask = "waiting" /\ reqs[1].pc = "done"
  /\ panel' = [panel EXCEPT
                 !.ask = "idle",
                 !.qa = IF reqs[1].ok # "true" THEN "(error)"
                        ELSE IF reqs[1].text # <<>> THEN "answer"
                        ELSE "(no answer)"]
  /\ reqs' = [reqs EXCEPT ![1] = IdleRequest]
  /\ UNCHANGED pick
  /\ UNCHANGED <<repairVars, extractVars, clientVars, cacheVars, schedVars>>

\* Run now is clicked: 'Running...' is shown and the run-now message is sent
RunCoachNow ==
  /\ panel.run = "idle"
  /\ panel' = [panel EXCEPT !.run = "waiting", !.time = <<"Running", "">>]
  /\ reqs' = [reqs EXCEPT ![2] = [IdleRequest EXCEPT !.kind = "run-now", !.pc = "tab"]]
  /\ UNCHANGED pick
  /\ UNCHANGED <<repairVars, extractVars, clientVars, cacheVars, schedVars>>

\* the response to the run-now message arrives (none when the handler ended
\* without one): 'Completed', or the error
RunCoachAnswered ==
  /\ panel.run = "waiting" /\ reqs[2].pc = "done"
  /\ panel' = [panel EXCEPT
                 !.run = "idle",
                 !.time = IF reqs[2].ok = "true" THEN <<"Completed", "">>
                          ELSE IF reqs[2].ok = "false"
                            THEN <<"(error)", reqs[2].error>>
                          ELSE <<"(error)", "Run failed">>]
  /\ reqs' = [reqs EXCEPT ![2] = IdleRequest]
  /\ UNCHANGED pick
  /\ UNCHANGED <<repairVars, extractVars, clientVars, cacheVars, schedVars>>

\* the steps of the qa and run-now handlers, the stream read delta by delta
HandlerNext(r) ==
  \/ QaDocId(r) \/ QaLoad(r) \/ QaLookupFails(r) \/ QaTab(r) \/ QaTabFails(r)
  \/ QaDelta(r) \/ QaStreamEnds(r) \/ ReqModelFails(r)
  \/ RunTab(r) \/ RunTabFails(r) \/ RunScan(r) \/ RunVisible(r) \/ RunWhole(r)
  \/ RunSpawn(r) \/ RunAsk(r) \/ RunDelta(r) \/ RunStreamEnds(r)
  \/ RunDelivered(r) \/ RunThrows(r) \/ RunCatch(r)

InitAsk ==
  /\ reqs = <<IdleRequest, IdleRequest>> /\ panel = IdlePanel /\ pick = <<>>
  /\ stored = [fields |-> SettingsKeys, value |-> DEFAULTS] /\ alarms = {}
  /\ cfg = <<>> /\ ticks = <<>> /\ stale = {}
  /\ persisted = [d \in {"u1"} |-> {EarlierSummary}]
  /\ sum = <<IdleFlow>> /\ now = 1
  /\ doc \in 0..1 /\ activeUrl \in {"none", "u1"} /\ switches = 0
  /\ sKind = "none" /\ sPc = "off" /\ sStatus = 0 /\ sHasBody = FALSE
  /\ sLines = <<>> /\ sWire = <<>> /\ sBuffer = <<>> /\ sFull = <<>>
  /\ sDeltas = <<>> /\ sResult = <<>> /\ sError = "" /\ sRequests = 0
  /\ rText = <<>> /\ rOnce = <<>> /\ rTwice = <<>> /\ rLatex = <<>> /\ rPc = "off"
  /\ xDom = <<>> /\ xArgs = <<>> /\ xRaw = <<>> /\ xOut = <<>> /\ xPc = "off"

AskNext ==
  \/ OnAsk
  \/ OnAskAnswered
  \/ RunCoachNow
  \/ RunCoachAnswered
  \/ \E r \in DOMAIN reqs : HandlerNext(r)
  \/ \E i \in DOMAIN sum : SummaryNext(i)

SpecAsk == InitAsk /\ [][AskNext]_vars

\* the run-now request r ended with the response 'No text'
NoText(r) ==
  /\ reqs[r].kind = "run-now" /\ reqs[r].pc = "done"
  /\ reqs[r].ok = "false" /\ reqs[r].error = "No text"

C22_NoTextContactsNothing ==
  \A r \in DOMAIN reqs :
    NoText(r) =>
      /\ ~Has(reqs[r].sent, "maybeUpdateSummary")
      /\ ModelRequests(reqs[r].sent) = 0 /\ reqs[r].requests = 0
      /\ reqs[r].failure = "none"
      /\ Has(reqs[r].sent, "grabText:visible") /\ Has(reqs[r].sent, "grabText")
      /\ ~Has(reqs[r].sent, "visible:text") /\ ~Has(reqs[r].sent, "whole:text")

\* the part of C22 the code keeps: the step of onAsk that shows
\* '(no selection)' sends no request
C22_NoSelectionSendsNothing ==
  [][(panel'.qa = "(no selection)" /\ panel'.qa # panel.qa) => reqs' = reqs]_vars

\* the text request r's own model response has streamed so far
OwnOutput(r) == Flatten(reqs[r].deltas)

RightmostMark(text) ==
  IF \E i \in DOMAIN text : text[i] \in Terminals
    THEN CHOOSE i \in DOMAIN text :
           /\ text[i] \in Terminals
           /\ \A j \in DOMAIN text : j > i => text[j] \notin Terminals
    ELSE 0

\* e is where text is cut: after the rightmost mark and the closers that
\* immediately follow it
CutPoint(text, e) ==
  /\ e \in RightmostMark(text)..Len(text)
  /\ \A j \in (RightmostMark(text) + 1)..e : text[j] \in Closers
  /\ e = Len(text) \/ text[e + 1] \notin Closers

\* C24 as stated: sentence completion returns a text without '.', '!', '?'
\* unmodified, and any other text cut just after the rightmost mark and the
\* closers that follow it.
C24_CutAfterLastMark ==
  rPc = "once" =>
    LET out == ensureCompleteSentences(rText)
    IN  IF RightmostMark(rText) = 0 THEN out = rText
        ELSE \E e \in DOMAIN rText :
               CutPoint(rText, e) /\ out = SubSeq(rText, 1, e)

\* C24, amended: sentence completion returns a text without '.', '!', '?'
\* unmodified; any other text it cuts just after the rightmost mark and the
\* closers that follow it and strips of its leading white space, so the
\* result ends with a mark followed only by closers and nothing that
\* followed the cut is kept.
C24_CutAndTrimmed ==
  rPc = "once" =>
    LET out == ensureCompleteSentences(rText)
    IN  IF RightmostMark(rText) = 0 THEN out = rText
        ELSE /\ \E e \in DOMAIN rText, b \in DOMAIN rText :
                  /\ CutPoint(rText, e) /\ out = SubSeq(rText, b, e)
                  /\ \A j \in 1..(b - 1) : rText[j] \in WhiteSpace
                  /\ rText[b] \notin WhiteSpace
             /\ CutPoint(out, Len(out))

\* a text with leading white space, closers after its last mark and a
\* partial sentence after them has been repaired
C24_Witness ==
  /\ rPc = "once" /\ rText = <<" ", ".", "}", "a">>
  /\ ensureCompleteSentences(rText) = <<".", "}">>

\* grabEditorText has run in mode 'visible' on a CodeMirror page that has a
\* scroller and a content node
VisibleGrab ==
  /\ xPc = "done" /\ xArgs.mode = "visible" /\ ~xArgs.preferSelection
  /\ xDom.surface = "cm" /\ xDom.hasScroller

\* the text of lines first..last of the page
RangeText(first, last) == JoinLines(SubSeq(DomLines(xDom), first, last))

\* the last line of the padded slice: VisiblePad lines after the last visible
\* line, clipped to the end of the document
PaddedEnd == Min(xDom.numLines, SetMax(VisibleLines(xDom)) + VisiblePad)

C26_FallsBackToWindow ==
  (/\ VisibleGrab /\ xDom.numLines > 0
   /\ \/ VisibleLines(xDom) = {}
      \/ Trim(RangeText(SetMin(VisibleLines(xDom)), PaddedEnd)) = <<>>) =>
    LET range == CmVisibleRange(xDom)
    IN  /\ xRaw = RangeText(range[1], range[2])
        /\ range[2] - range[1] + 1 <= FallbackWindow
        /\ VisibleLines(xDom) # {} => range[1] = SetMin(VisibleLines(xDom))

\* the part of C26 the code keeps: with a visible block, a slice without
\* text is replaced by the 20 blocks from the first visible block, clipped
\* to the end of the document
C26_WindowFromFirstVisible ==
  (/\ VisibleGrab /\ VisibleLines(xDom) # {}
   /\ Trim(RangeText(SetMin(VisibleLines(xDom)), PaddedEnd)) = <<>>) =>
    /\ xRaw = RangeText(SetMin(VisibleLines(xDom)),
                        Min(xDom.numLines,
                            SetMin(VisibleLines(xDom)) + FallbackWindow - 1))

(***************************************************************************)
(* The views that send 'settings:set' (the two popups of the repository    *)
(* and the pause switches) and two handlers of it that may interleave.     *)
(***************************************************************************)
\* what parseInt(value || '5', 10) returns for the interval box: NaN for a
\* text without digits, else the number typed
ParsedIntervals == {NaN, Num(0), Num(7), Num(61)}

\* Save of the popup: Math.max(1, Math.min(60, Number.isFinite(raw) ? raw : 5))
SaveInterval(raw) ==
  Num(Max(1, Min(60, IF raw.nan THEN 5 ELSE raw.n)))

\* Save of the older popup: Math.max(1, Math.min(60, raw)), NaN when raw is
\* (the message then carries no number)
OlderSaveInterval(raw) ==
  IF raw.nan THEN NaN ELSE Num(Max(1, Min(60, raw.n)))

\* a view sends 'settings:set' with the patch and the handler h begins; each
\* handler serves one request
ViewSends(h, view, patch) ==
  /\ cfg[h].kind = "none"
  /\ cfg' = [cfg EXCEPT ![h] = [IdleHandler EXCEPT !.kind = "set", !.pc = "get",
                                                   !.patch = patch,
                                                   !.before = alarms]]
  /\ panel' = [panel EXCEPT ![h] = [view |-> view, patch |-> patch]]
  /\ UNCHANGED <<stored, alarms, ticks, stale, reqs, pick>>
  /\ UNCHANGED <<repairVars, extractVars, clientVars, cacheVars>>

\* Save is clicked in the popup
PopupSave(h) ==
  \E raw \in ParsedIntervals :
    ViewSends(h, "popup",
              Patch({"intervalMin", "model", "endpoint"},
                    [DEFAULTS EXCEPT !.intervalMin = SaveInterval(raw)]))

\* Save is clicked in the older popup
OlderPopupSave(h) ==
  \E raw \in ParsedIntervals :
    ViewSends(h, "older popup",
              Patch({"intervalMin", "model", "endpoint"},
                    [DEFAULTS EXCEPT !.intervalMin = OlderSaveInterval(raw)]))

\* the pause box of a popup or the pause button of the panel is used
PauseSwitch(h) ==
  \E checked \in BOOLEAN :
    ViewSends(h, "pause", Patch({"paused"}, [DEFAULTS EXCEPT !.paused = checked]))

\* the coach is running with the default settings, or was just installed
InitSettings ==
  /\ \/ /\ stored = [fields |-> SettingsKeys, value |-> [DEFAULTS EXCEPT !.paused = FALSE]]
        /\ alarms = {[name |-> AlarmName, periodInMinutes |-> DEFAULTS.intervalMin]}
     \/ /\ stored = [fields |-> SettingsKeys, value |-> DEFAULTS]
        /\ alarms = {}
  /\ cfg = <<IdleHandler, IdleHandler>> /\ ticks = <<>> /\ stale = {}
  /\ panel = <<[view |-> "none", patch |-> EmptyPatch],
               [view |-> "none", patch |-> EmptyPatch]>>
  /\ reqs = <<>> /\ pick = <<>>
  /\ persisted = [d \in {} |-> {}] /\ sum = <<>> /\ now = 0 /\ doc = 0
  /\ activeUrl = "none" /\ switches = 0
  /\ sKind = "none" /\ sPc = "off" /\ sStatus = 0 /\ sHasBody = FALSE
  /\ sLines = <<>> /\ sWire = <<>> /\ sBuffer = <<>> /\ sFull = <<>>
  /\ sDeltas = <<>> /\ sResult = <<>> /\ sError = "" /\ sRequests = 0
  /\ rText = <<>> /\ rOnce = <<>> /\ rTwice = <<>> /\ rLatex = <<>> /\ rPc = "off"
  /\ xDom = <<>> /\ xArgs = <<>> /\ xRaw = <<>> /\ xOut = <<>> /\ xPc = "off"

SettingsNext ==
  \/ \E h \in DOMAIN cfg : PopupSave(h)
  \/ \E h \in DOMAIN cfg : OlderPopupSave(h)
  \/ \E h \in DOMAIN cfg : PauseSwitch(h)
  \/ \E h \in DOMAIN cfg : SetRead(h)
  \/ \E h \in DOMAIN cfg : SetWrite(h)
  \/ \E h \in DOMAIN cfg : EnsureRead(h)
  \/ \E h \in DOMAIN cfg : EnsureClear(h)
  \/ \E h \in DOMAIN cfg : EnsureCreate(h)

SpecSettings == InitSettings /\ [][SettingsNext]_vars

\* v is an integer from 1 to 60
InRange(v) == ~v.nan /\ v.n \in 1..60

\* C27: in every reachable state the stored configuration's intervalMin is
\* an integer from 1 to 60: every value a Save passes to set is clamped into
\* that range, and no other request stores a value outside it.
C27_IntervalInRange ==
  /\ InRange(getSettings(stored).intervalMin)
  /\ \A h \in DOMAIN cfg :
       "intervalMin" \in cfg[h].patch.fields =>
         InRange(cfg[h].patch.value.intervalMin)

\* the part of C27 the code keeps: every value the Save of the popup of
\* part_001 passes is in range, and while only that popup and the pause
\* switches have sent requests, the stored value is in range
C27_PopupSaveInRange ==
  /\ \A h \in DOMAIN cfg :
       (panel[h].view = "popup" /\ "intervalMin" \in cfg[h].patch.fields) =>
         InRange(cfg[h].patch.value.intervalMin)
  /\ (\A h \in DOMAIN cfg : panel[h].view # "older popup") =>
       InRange(getSettings(stored).intervalMin)

\* both handlers have completed requests whose patches name different fields
BothSetsDone ==
  /\ \A h \in DOMAIN cfg : cfg[h].pc = "done" /\ panel[h].view # "none"
  /\ panel[1].patch.fields \cap panel[2].patch.fields = {}

\* C30: when two settings:set requests with patches on different fields run
\* concurrently, interleaved at the read and the write of setSettings, then
\* after both complete the stored configuration holds the values of both
\* patches.
C30_BothPatchesStored ==
  BothSetsDone =>
    \A h \in DOMAIN cfg :
      \A k \in panel[h].patch.fields :
        getSettings(stored)[k] = panel[h].patch.value[k]

\* what the code keeps of C30: a write of setSettings stores the fields of
\* its own patch, and the fields it did not patch as it read them
C30_WriteStoresOwnPatch ==
  [][\A h \in DOMAIN cfg :
       (cfg[h].pc = "set" /\ cfg'[h].pc # "set") =>
         stored'.value = Merge(cfg[h].prev, cfg[h].patch)]_vars

DeltaEvents == {"qa:answer:delta", "coach:answer:delta"}

\* the number of delta events in a log
RECURSIVE DeltasSent(_)
DeltasSent(log) ==
  IF log = <<>> THEN 0
  ELSE (IF Head(log) \in DeltaEvents THEN 1 ELSE 0) + DeltasSent(Tail(log))

\* C28: in a qa or run-now request every delta event sent to the view is
\* sent before the final result of the request (the 'coach:answer' message
\* of run-now, the response of both): the deltas sent are the deltas parsed,
\* in the order they were parsed (none when qa found no tab), nothing is
\* sent after the final result, and when the model call fails no final
\* result is sent.
C28_DeltasThenFinal ==
  /\ [](\A r \in DOMAIN reqs :
          /\ \/ reqs[r].pushed = reqs[r].deltas
             \/ reqs[r].kind = "qa" /\ reqs[r].pushed = <<>>
          /\ DeltasSent(reqs[r].sent) = Len(reqs[r].pushed)
          /\ \A i, j \in DOMAIN reqs[r].sent :
               (reqs[r].sent[i] \in DeltaEvents /\ reqs[r].sent[j] = "coach:answer")
                 => i < j
          /\ reqs[r].failure \in ChatFailures =>
               /\ ~Has(reqs[r].sent, "coach:answer")
               /\ reqs[r].ok # "true" /\ reqs[r].text = <<>> /\ reqs[r].final = <<>>)
  /\ [][\A r \in DOMAIN reqs :
          (reqs[r].pc \in {"deliver", "catch", "done"} /\ reqs'[r].pc # "idle") =>
            /\ reqs'[r].pushed = reqs[r].pushed
            /\ DeltasSent(reqs'[r].sent) = DeltasSent(reqs[r].sent)]_vars

\* a run-now pass sent both deltas and then its answer, and the model call
\* of a qa request failed after its first delta
C28_Witness ==
  /\ reqs[2].kind = "run-now" /\ reqs[2].pc = "done" /\ reqs[2].ok = "true"
  /\ reqs[2].pushed = StreamScript
  /\ reqs[1].kind = "qa" /\ reqs[1].failure \in ChatFailures
  /\ reqs[1].pushed = <<StreamScript[1]>>

\* the listener invocation t has not got past reading the settings
TickQuiet(t) == ticks[t].pc \in {"idle", "settings", "done"}

\* C29: a tick that reads paused = true from the configuration asks for no
\* text, starts no summary update and calls no model, even when the timer is
\* still armed: while the stored configuration is paused, a listener
\* invocation that has not got past reading the settings ends there, with
\* nothing sent, whatever the alarms are.
C29_PausedTickDoesNothing ==
  [][\A t \in DOMAIN ticks :
       (getSettings(stored).paused /\ TickQuiet(t)) =>
         /\ ticks'[t].pc \in {"idle", "settings", "done"}
         /\ ticks'[t].sent \in {<<>>, ticks[t].sent}
         /\ ticks'[t].requests \in {0, ticks[t].requests}
         /\ ~ticks'[t].spawned
         /\ (ticks[t].pc = "settings" /\ ticks'[t].pc # "settings") =>
              (ticks'[t].pc = "done" /\ ticks'[t].sent = <<>>)]_vars

\* the pause has been persisted, the timer is still armed, and a tick that
\* fired since then has ended without doing anything, with a tab to coach
C29_Witness ==
  /\ getSettings(stored).paused /\ Armed /\ activeUrl # "none"
  /\ \E h \in DOMAIN cfg : cfg[h].kind = "set" /\ cfg[h].pc \in {"eaGet", "eaClear"}
  /\ ticks[1].pc = "done" /\ ticks[1].sent = <<>> /\ 1 \notin stale

(***************************************************************************)
(* The handlers that run ensureAlarm (onInstalled, onStartup and           *)
(* 'settings:set'), two at a time, interleaved at their awaits.            *)
(***************************************************************************)
\* the patches of the pause switches
PausePatches ==
  {Patch({"paused"}, [DEFAULTS EXCEPT !.paused = b]) : b \in BOOLEAN}

\* the coach is running with the default settings, or was just installed
InitAlarms ==
  /\ \/ /\ stored = [fields |-> SettingsKeys, value |-> [DEFAULTS EXCEPT !.paused = FALSE]]
        /\ alarms = {[name |-> AlarmName, periodInMinutes |-> DEFAULTS.intervalMin]}
     \/ /\ stored = [fields |-> {}, value |-> DEFAULTS]
        /\ alarms = {}
  /\ cfg = <<IdleHandler, IdleHandler>> /\ ticks = <<>> /\ stale = {}
  /\ reqs = <<>> /\ pick = <<>> /\ panel = <<>>
  /\ persisted = [d \in {} |-> {}] /\ sum = <<>> /\ now = 0 /\ doc = 0
  /\ activeUrl = "none" /\ switches = 0
  /\ sKind = "none" /\ sPc = "off" /\ sStatus = 0 /\ sHasBody = FALSE
  /\ sLines = <<>> /\ sWire = <<>> /\ sBuffer = <<>> /\ sFull = <<>>
  /\ sDeltas = <<>> /\ sResult = <<>> /\ sError = "" /\ sRequests = 0
  /\ rText = <<>> /\ rOnce = <<>> /\ rTwice = <<>> /\ rLatex = <<>> /\ rPc = "off"
  /\ xDom = <<>> /\ xArgs = <<>> /\ xRaw = <<>> /\ xOut = <<>> /\ xPc = "off"

AlarmsNext ==
  \/ \E h \in DOMAIN cfg, patch \in PausePatches : SettingsSet(h, patch, FALSE)
  \/ \E h \in DOMAIN cfg : OnInstalled(h, FALSE)
  \/ \E h \in DOMAIN cfg : OnStartup(h, FALSE)
  \/ \E h \in DOMAIN cfg : SetRead(h)
  \/ \E h \in DOMAIN cfg : SetWrite(h)
  \/ \E h \in DOMAIN cfg : EnsureRead(h)
  \/ \E h \in DOMAIN cfg : EnsureClear(h)
  \/ \E h \in DOMAIN cfg : EnsureCreate(h)

SpecAlarms == InitAlarms /\ [][AlarmsNext]_vars

\* C31: whenever no settings operation is in progress, the timer is armed
\* exactly when the stored configuration has paused = false and
\* intervalMin > 0, also after executions of ensureAlarm have interleaved;
\* before the first operation of the installed extension the stored
\* configuration is the one the timer was left for.
C31_ArmedIffConfiguredWhenIdle ==
  ConfigurationIdle => (Armed <=> ShouldArm(getSettings(stored)))

\* what the code keeps of C31: an ensureAlarm creates the timer exactly when
\* the configuration it read asks for it
C31_CreatesAsRead ==
  [][\A h \in DOMAIN cfg :
       (cfg[h].pc = "eaCreate" /\ cfg'[h].pc # "eaCreate") =>
         (ShouldArm(cfg[h].seen) => Armed')]_vars

(***************************************************************************)
(* The document text of the prompts: what each handler of the service      *)
(* worker places in the request it builds, for texts around the limit of   *)
(* trimChars and around the budgets of the two content scripts.            *)
(***************************************************************************)
\* a text of n characters
Filler(n, ch) == [i \in 1..n |-> ch]

\* the lengths of the text a message carries
PromptLengths ==
  {0, 1, TrimCharsMax - Len(SelectionLabel) - 1, TrimCharsMax - Len(SelectionLabel),
   TrimCharsMax - 1, TrimCharsMax, TrimCharsMax + 1, ContentMaxChars}

\* the lengths of the summary picked for a question (0: none is cached)
BestLengths == {0, 1, TrimCharsMax - Len(SelectionLabel) - 1, TrimCharsMax, TrimCharsMax + 1}

\* the lengths of the document a sample is taken from
DocLengths ==
  {1, TrimCharsMax - 1, TrimCharsMax, TrimCharsMax + 1,
   ContentMaxChars - 1, ContentMaxChars, ContentMaxChars + 1}

\* a page whose body is one line of n letters, with no selection
PlainPage(n) ==
  Page([surface |-> "body", hasScroller |-> FALSE, aceApi |-> FALSE], 1,
       [n |-> n, lead |-> 0, cr |-> FALSE], 1, 0, 0, 1, Probes(0, <<>>, FALSE))

\* the text the content script answers grabText with: that of part_003, or
\* that of content.ts
SampleOf(view, n) ==
  IF view = "content.ts" THEN contentGrabEditorText(PlainPage(n), FALSE).text
  ELSE grabEditorText(PlainPage(n), FALSE, "all").text

IdlePrompt ==
  [pc |-> "call", kind |-> "", view |-> "", text |-> <<>>, best |-> <<>>,
   snippet |-> <<>>, summarized |-> <<>>]

\* qa: the context is built from the summary picked and the text provided
BuildQaPrompt ==
  /\ pick.pc = "call" /\ pick.kind = "qa"
  /\ pick' = [pick EXCEPT !.pc = "built",
                          !.snippet = QaContext(pick.best, pick.text)]
  /\ UNCHANGED <<reqs, panel>>
  /\ UNCHANGED <<repairVars, extractVars, clientVars, cacheVars, schedVars>>

\* coach, coach:expand: the snippet is the text of the message, trimmed
BuildCoachPrompt ==
  /\ pick.pc = "call" /\ pick.kind \in {"coach", "coach:expand"}
  /\ pick' = [pick EXCEPT !.pc = "built", !.snippet = trimChars(pick.text)]
  /\ UNCHANGED <<reqs, panel>>
  /\ UNCHANGED <<repairVars, extractVars, clientVars, cacheVars, schedVars>>

\* run-now, tick: the sample the content script returned is handed to
\* maybeUpdateSummary, whose prompt carries it as it is, and the coaching
\* snippet is the sample trimmed
BuildSamplePrompts ==
  /\ pick.pc = "call" /\ pick.kind \in {"run-now", "tick"}
  /\ pick' = [pick EXCEPT !.pc = "built",
                          !.summarized = pick.text,
                          !.snippet = trimChars(pick.text)]
  /\ UNCHANGED <<reqs, panel>>
  /\ UNCHANGED <<repairVars, extractVars, clientVars, cacheVars, schedVars>>

InitPrompt ==
  /\ \/ \E n \in PromptLengths, b \in BestLengths :
          pick = [IdlePrompt EXCEPT
                    !.kind = "qa", !.text = Filler(n, "p"),
                    !.best = IF b = 0 THEN <<>>
                             ELSE <<[sectionKey |-> <<1, 1>>, text |-> Filler(b, "s"),
                                     updatedAt |-> 1]>>]
     \/ \E n \in PromptLengths, k \in {"coach", "coach:expand"} :
          pick = [IdlePrompt EXCEPT !.kind = k, !.text = Filler(n, "p")]
     \/ \E n \in DocLengths, k \in {"run-now", "tick"},
           view \in {"part_003", "content.ts"} :
          pick = [IdlePrompt EXCEPT !.kind = k, !.view = view,
                                    !.text = SampleOf(view, n)]
  /\ reqs = <<>> /\ panel = <<>>
  /\ stored = [fields |-> {}, value |-> DEFAULTS] /\ alarms = {}
  /\ cfg = <<>> /\ ticks = <<>> /\ stale = {}
  /\ persisted = [d \in {} |-> {}] /\ sum = <<>> /\ now = 0 /\ doc = 0
  /\ activeUrl = "none" /\ switches = 0
  /\ sKind = "none" /\ sPc = "off" /\ sStatus = 0 /\ sHasBody = FALSE
  /\ sLines = <<>> /\ sWire = <<>> /\ sBuffer = <<>> /\ sFull = <<>>
  /\ sDeltas = <<>> /\ sResult = <<>> /\ sError = "" /\ sRequests = 0
  /\ rText = <<>> /\ rOnce = <<>> /\ rTwice = <<>> /\ rLatex = <<>> /\ rPc = "off"
  /\ xDom = <<>> /\ xArgs = <<>> /\ xRaw = <<>> /\ xOut = <<>> /\ xPc = "off"

PromptNext == BuildQaPrompt \/ BuildCoachPrompt \/ BuildSamplePrompts

SpecPrompt == InitPrompt /\ [][PromptNext]_vars

\* the text the context of a question is cut from
QaFullText ==
  IF pick.best # <<>>
    THEN pick.best[1].text
           \o (IF pick.text # <<>> THEN SelectionLabel \o pick.text ELSE <<>>)
    ELSE pick.text

\* C32: the document text placed in any prompt sent to the model is at most
\* 1500 characters: the context of a question, the coaching snippet, and
\* the text handed to the summarisation prompt of run-now and tick.
C32_PromptTextAtMost1500 ==
  pick.pc = "built" =>
    /\ Len(pick.snippet) <= TrimCharsMax
    /\ Len(pick.summarized) <= TrimCharsMax

\* C32, the prompts it lists: the context of a question and the coaching
\* snippet of coach, coach:expand, run-now and tick are the first 1500
\* characters of the text they are built from.
C32_SnippetsAreTrimmed ==
  pick.pc = "built" =>
    /\ Len(pick.snippet) <= TrimCharsMax
    /\ pick.snippet = Prefix(IF pick.kind = "qa" THEN QaFullText ELSE pick.text,
                             TrimCharsMax)

\* a text is empty or holds white space only
IsBlank(text) == Trim(text) = <<>>

\* C33: the final text of a coaching result is never empty or white space
\* only: for an empty or blank model output it is the repair of the fixed
\* message 'No substantial issues detected. Keep going!' (which the repair
\* leaves as it is), and the repair of an output that is not blank is not
\* blank.
C33_CoachFinalNeverBlank ==
  rPc = "once" =>
    /\ ~IsBlank(CoachFinal(rText))
    /\ IsBlank(rText) =>
         /\ CoachFinal(rText) = OutputRepair(NothingToReport)
         /\ CoachFinal(rText) = NothingToReport
    /\ ~IsBlank(rText) => (CoachFinal(rText) = rOnce /\ ~IsBlank(rOnce))

\* a model output of white space alone has been repaired
C33_Witness ==
  rPc = "once" /\ rText # <<>> /\ IsBlank(rText) /\ CoachFinal(rText) = NothingToReport

\* C34: when the summarisation request of a call fails or returns a summary
\* that is empty or white space only, the call writes nothing: the
\* persisted tables are what they were, and the table of the document is
\* the one the call loaded, with no entry added and none evicted.
C34_NoSummaryNothingWritten ==
  [][\A i \in DOMAIN sum :
       (sum[i].pc = "summarize" /\ sum'[i].pc = "done") =>
         /\ persisted' = persisted
         /\ LoadSummaries(persisted', sum[i].docId) = sum[i].table]_vars

\* a call whose request gave no summary has ended on a table of 12 entries
C34_Witness ==
  \E i \in DOMAIN sum :
    /\ sum[i].pc = "done" /\ sum[i].requested
    /\ ~sum[i].wrote /\ ~sum[i].hit /\ ~sum[i].failed
    /\ Cardinality(LoadSummaries(persisted, sum[i].docId)) = MaxEntries

\* the stream read in one chunk: every line is drained at once and the
\* remainder is flushed
OneChunk(lines, terminated) ==
  FlushRemainder(DrainLines([buffer |-> WireOf(lines, terminated),
                             full |-> <<>>, deltas |-> <<>>]))

\* the stream ended in a line with no newline after it
Unterminated == sBuffer # <<>>

\* C35: however the stream is cut into chunks, the onDelta calls made and
\* the text returned are those of the stream read in one chunk, and they
\* are the same whether or not a newline ends the last line: a last line
\* without one is parsed when the stream ends and its text delivered.
C35_ChunkingDoesNotMatter ==
  (sKind = "stream" /\ sPc = "resolved") =>
     /\ \A t \in BOOLEAN :
          /\ sDeltas = OneChunk(sLines, t).deltas
          /\ sResult = OneChunk(sLines, t).full
     /\ Unterminated =>
          LET p == ParseLine(Trim(sLines[Len(sLines)]))
          IN  (p.ok /\ p.delta # <<>>) =>
                 sDeltas # <<>> /\ sDeltas[Len(sDeltas)] = p.delta

\* a chunk ended in the middle of a line: part of a fragment is buffered
\* and the rest of the line is still to come
C35_CutInsideALine ==
  /\ sKind = "stream" /\ sPc = "reading"
  /\ sBuffer = <<"{">> /\ sWire # <<>> /\ sWire[1] # "\n"

\* three fragments were delivered from a stream whose last line had no
\* newline after it
C35_Witness ==
  /\ sKind = "stream" /\ sPc = "resolved" /\ Unterminated
  /\ Len(sLines) = 3 /\ Len(sDeltas) = 3
  /\ sResult = <<"A", "C", "B", "b">>

(***************************************************************************)
(* Two maybeUpdateSummary calls in progress together while the writer      *)
(* edits: the texts of the calls may have different fingerprints. The      *)
(* table of the document holds a summary cached by an earlier pass.        *)
(***************************************************************************)
\* the writer changes the text while a call is in progress
EditDuringCall ==
  /\ \E j \in DOMAIN sum : FlowBusy(j)
  /\ EditDoc(MaxDoc)

InitOverlap ==
  /\ persisted = [d \in {"u1"} |-> {EarlierSummary}]
  /\ sum = <<IdleFlow, IdleFlow>> /\ now = 1
  /\ doc = MaxDoc - 1 /\ activeUrl = "u1" /\ switches = 0
  /\ stored = [fields |-> {}, value |-> DEFAULTS] /\ alarms = {}
  /\ cfg = <<>> /\ ticks = <<>> /\ stale = {}
  /\ reqs = <<>> /\ pick = <<>> /\ panel = <<>>
  /\ sKind = "none" /\ sPc = "off" /\ sStatus = 0 /\ sHasBody = FALSE
  /\ sLines = <<>> /\ sWire = <<>> /\ sBuffer = <<>> /\ sFull = <<>>
  /\ sDeltas = <<>> /\ sResult = <<>> /\ sError = "" /\ sRequests = 0
  /\ rText = <<>> /\ rOnce = <<>> /\ rTwice = <<>> /\ rLatex = <<>> /\ rPc = "off"
  /\ xDom = <<>> /\ xArgs = <<>> /\ xRaw = <<>> /\ xOut = <<>> /\ xPc = "off"

OverlapNext ==
  \/ \E i \in DOMAIN sum : ConcurrentUpdate(i)
  \/ \E i \in DOMAIN sum : SummaryNext(i)
  \/ EditDuringCall

SpecOverlap == InitOverlap /\ [][OverlapNext]_vars

\* both calls have stored a summary, for different fingerprints of the same
\* document, and have ended
BothStored ==
  /\ \A i \in DOMAIN sum : sum[i].pc = "done" /\ sum[i].wrote
  /\ sum[1].key # sum[2].key /\ sum[1].docId = sum[2].docId

\* C36: after two calls for different fingerprints of the same document
\* have both stored their summary in a table of fewer than 11 entries, the
\* persisted table holds both new entries and every entry it held before.
C36_BothEntriesPersisted ==
  BothStored =>
    LET table == LoadSummaries(persisted, sum[1].docId)
    IN  /\ HasEntry(table, sum[1].key)
        /\ HasEntry(table, sum[2].key)
        /\ EarlierSummary \in table

\* what a call stores is the table it loaded with its own entry added: the
\* entries it loaded are all kept (the table is below the cap)
C36_StoresWhatItLoaded ==
  [][\A i \in DOMAIN sum :
       Stores(i) =>
         LET table == LoadSummaries(persisted', sum[i].docId)
         IN  /\ sum[i].table \subseteq table
             /\ HasEntry(table, sum[i].key)
             /\ Cardinality(table) = Cardinality(sum[i].table) + 1]_vars

(***************************************************************************)
(* The message listener and the alarm listener under the assumption that   *)
(* every call a handler awaits returns or fails: a handler that is in      *)
(* progress takes its next step. Nothing is assumed of the cache updates,  *)
(* and a handler starts its update whatever number of them is in progress. *)
(***************************************************************************)
\* run-now: maybeUpdateSummary is called while the updates that are followed
\* are all in progress: the call is made and this update is not followed
RunSpawnUntracked(r) ==
  /\ reqs[r].kind = "run-now" /\ reqs[r].pc = "read"
  /\ \A i \in DOMAIN sum : FlowBusy(i)
  /\ reqs' = [reqs EXCEPT ![r].pc = "spawn",
                          ![r].sent = reqs[r].sent \o <<"maybeUpdateSummary", "Thinking">>]
  /\ UNCHANGED <<pick, panel>>
  /\ UNCHANGED <<repairVars, extractVars, clientVars, cacheVars, schedVars>>

\* the same of the alarm listener
TickSpawnUntracked(t) ==
  /\ ticks[t].pc = "read"
  /\ \A i \in DOMAIN sum : FlowBusy(i)
  /\ ticks' = [ticks EXCEPT ![t].pc = "spawn", ![t].spawned = TRUE,
                            ![t].source = "none",
                            ![t].sent = ticks[t].sent \o <<"maybeUpdateSummary", "Thinking">>]
  /\ UNCHANGED <<stored, alarms, cfg, stale>>
  /\ UNCHANGED <<repairVars, extractVars, clientVars, cacheVars, reqVars>>

\* the next step of the invocation r, which is in progress (the steps in
\* which an awaited call fails come first)
ReqStep(r) ==
  /\ ReqBusy(r)
  /\ \/ QaLookupFails(r) \/ QaTabFails(r) \/ ReqModelFails(r)
     \/ RunTabFails(r) \/ RunThrows(r)
     \/ ReqNext(r)
     \/ RunSpawnUntracked(r)

\* the next step of the invocation t of the alarm listener
TickStep(t) ==
  /\ TickBusy(t)
  /\ \/ TickChatFails(t) \/ TickDeliveryFails(t)
     \/ TickNext(t)
     \/ TickSpawnUntracked(t)

FairNext ==
  \/ RequestsNext
  \/ \E r \in DOMAIN reqs : RunSpawnUntracked(r)
  \/ \E t \in DOMAIN ticks : TickSpawnUntracked(t)

SpecRequestsFair ==
  /\ InitRequests
  /\ [][FairNext]_vars
  /\ WF_vars(ReqStep(1))
  /\ WF_vars(TickStep(1))

\* C37: every run-now and qa request that is being handled is answered in
\* the end, and every invocation of the alarm listener ends.
C37_EveryRequestAnswered ==
  /\ (ReqBusy(1) /\ reqs[1].kind \in {"qa", "run-now"}) ~> (reqs[1].ok # "none")
  /\ TickBusy(1) ~> (ticks[1].pc = "done")

\* the run-now request whose first tab query rejected: it has ended
\* without a response
Unanswered(r) ==
  /\ reqs[r].pc = "done" /\ reqs[r].ok = "none"
  /\ reqs[r].kind = "run-now" /\ reqs[r].failure = "tabs" /\ reqs[r].sent = <<>>

\* C37 but for that request: every other request is answered, every
\* invocation of the alarm listener ends, and the handlers end whether or
\* not the cache updates they started ever do.
C37_AnsweredUnlessTabQueryRejects ==
  /\ (ReqBusy(1) /\ reqs[1].kind \in {"qa", "run-now"})
       ~> (reqs[1].ok # "none" \/ Unanswered(1))
  /\ TickBusy(1) ~> (ticks[1].pc = "done")
====
